---------------------------- MODULE Spec2Model ----------------------------
(***************************************************************************)
(* A model of the Monte Carlo exotic-option pricing engine: the pricing    *)
(* worker (pricingWorker.js), the option families (AsianOption.js,         *)
(* BarrierOption.js, LookbackOption.js) over the simulation base class     *)
(* (MonteCarloSimulation.js) and the correlation utilities                 *)
(* (matrixOperations.js).                                                  *)
(*                                                                         *)
(* JavaScript numbers are modelled in fixed point: the integer x stands    *)
(* for the number x / Scale.  Three reserved values stand for NaN,         *)
(* +Infinity and -Infinity.  JavaScript strings are modelled as sequences  *)
(* of one-character strings, so that split, startsWith, endsWith and       *)
(* replace are computed character by character.                            *)
(***************************************************************************)
EXTENDS Integers, Sequences, FiniteSets, TLC

\* body(v) for v the value of e: a local `const v = e` of the code, e
\* evaluated once.
Bind(e, body(_)) == CHOOSE r \in {body(v) : v \in {e}} : TRUE

(***************************************************************************)
(*                         Fixed-point numbers                             *)
(***************************************************************************)
\* The fixed-point unit: 1.0 is Scale.
Scale == 10 * 10 * 10

PosInf == 2 ^ 30
NegInf == 0 - PosInf
NaN == NegInf - 1

Finite(a) == a # NaN /\ a # PosInf /\ a # NegInf

Abs(a) == IF a < 0 THEN 0 - a ELSE a
Sign(a) == IF a < 0 THEN 0 - 1 ELSE IF a > 0 THEN 1 ELSE 0

\* n / d rounded to the nearest integer (d > 0), halves away from zero.
RoundDiv(n, d) ==
    IF n >= 0 THEN (2 * n + d) \div (2 * d)
    ELSE 0 - ((2 * (0 - n) + d) \div (2 * d))

\* The model's finite range: a result of magnitude Huge or more is
\* represented by the infinity of its sign.
Huge == 2 ^ 28
Sat(x) == IF x >= Huge THEN PosInf ELSE IF x <= 0 - Huge THEN NegInf ELSE x

Neg(a) ==
    IF a = NaN THEN NaN
    ELSE IF a = PosInf THEN NegInf
    ELSE IF a = NegInf THEN PosInf
    ELSE 0 - a

\* a + b
Add(a, b) ==
    IF a = NaN \/ b = NaN THEN NaN
    ELSE IF a = PosInf THEN (IF b = NegInf THEN NaN ELSE PosInf)
    ELSE IF a = NegInf THEN (IF b = PosInf THEN NaN ELSE NegInf)
    ELSE IF ~Finite(b) THEN b
    ELSE Sat(a + b)

\* a - b
Sub(a, b) == Add(a, Neg(b))

\* |a| * |b| / Scale for finite a, b, computed by parts so that no
\* intermediate leaves 32 bits; PosInf when the product leaves the range.
MulAbs(a, b) ==
    LET ah == Abs(a) \div Scale
        al == Abs(a) % Scale
        bh == Abs(b) \div Scale
        bl == Abs(b) % Scale
    IN  IF ah > 0 /\ bh > (Huge \div Scale) \div ah THEN PosInf
        ELSE Sat(ah * bh * Scale + ah * bl + al * bh + RoundDiv(al * bl, Scale))

\* a * b
Mul(a, b) ==
    IF a = NaN \/ b = NaN THEN NaN
    ELSE IF ~Finite(a) \/ ~Finite(b) THEN
        (IF a = 0 \/ b = 0 THEN NaN
         ELSE IF Sign(a) * Sign(b) > 0 THEN PosInf ELSE NegInf)
    ELSE IF MulAbs(a, b) = PosInf
         THEN (IF Sign(a) * Sign(b) > 0 THEN PosInf ELSE NegInf)
    ELSE Sign(a) * Sign(b) * MulAbs(a, b)

\* |a| / |b| in fixed point for finite a and b # 0, computed by parts.
DivAbs(a, b) ==
    LET q == Abs(a) \div Abs(b)
        r == Abs(a) % Abs(b)
    IN  IF q >= Huge \div Scale THEN PosInf
        ELSE Sat(q * Scale + (IF Abs(b) < 2 ^ 19 THEN RoundDiv(r * Scale, Abs(b))
                              ELSE RoundDiv(r, RoundDiv(Abs(b), Scale))))

\* a / b (the sign of a zero is not modelled: x / 0 is +-Infinity by the
\* sign of x, 0 / 0 is NaN).
Div(a, b) ==
    IF a = NaN \/ b = NaN THEN NaN
    ELSE IF ~Finite(a) THEN
        (IF ~Finite(b) THEN NaN
         ELSE IF Sign(a) * (IF b < 0 THEN 0 - 1 ELSE 1) > 0 THEN PosInf ELSE NegInf)
    ELSE IF ~Finite(b) THEN 0
    ELSE IF b = 0 THEN
        (IF a = 0 THEN NaN ELSE IF a > 0 THEN PosInf ELSE NegInf)
    ELSE IF DivAbs(a, b) = PosInf
         THEN (IF Sign(a) * Sign(b) > 0 THEN PosInf ELSE NegInf)
    ELSE Sign(a) * Sign(b) * DivAbs(a, b)

\* a / n for a plain integer count n (array lengths).
DivInt(a, n) ==
    IF a = NaN THEN NaN
    ELSE IF n = 0 THEN
        (IF a = 0 THEN NaN ELSE IF a > 0 THEN PosInf ELSE NegInf)
    ELSE IF ~Finite(a) THEN a
    ELSE RoundDiv(a, n)

\* Comparisons: every comparison with NaN is false.
Lt(a, b) == a # NaN /\ b # NaN /\ a < b
Le(a, b) == a # NaN /\ b # NaN /\ a <= b
Gt(a, b) == Lt(b, a)
Ge(a, b) == Le(b, a)

\* Math.max(a, b) and Math.min(a, b): NaN if either argument is NaN.
MathMax2(a, b) == IF a = NaN \/ b = NaN THEN NaN ELSE IF a >= b THEN a ELSE b
MathMin2(a, b) == IF a = NaN \/ b = NaN THEN NaN ELSE IF a <= b THEN a ELSE b

\* Math.abs
MathAbs(a) == IF a = NaN THEN NaN ELSE IF a = NegInf THEN PosInf ELSE Abs(a)

RECURSIVE ISqrt(_, _, _)
\* The largest r in lo..hi with r * r <= x (bisection).
ISqrt(x, lo, hi) ==
    IF lo >= hi THEN lo
    ELSE LET mid == (lo + hi + 1) \div 2
         IN  IF mid * mid <= x THEN ISqrt(x, mid, hi) ELSE ISqrt(x, lo, mid - 1)

\* The integer nearest to the square root of x.
NearestSqrt(x) ==
    Bind(ISqrt(x, 0, 46340), LAMBDA r : IF x - r * r > r THEN r + 1 ELSE r)

\* Math.sqrt, rounded to the nearest representable value: NaN for a negative
\* argument.
Sqrt(a) ==
    IF a = NaN \/ a < 0 THEN NaN
    ELSE IF a = PosInf THEN PosInf
    ELSE IF a < 2 ^ 21 THEN NearestSqrt(a * Scale)
    ELSE RoundDiv(NearestSqrt(a) * 31623, Scale)

RECURSIVE ExpSeries(_, _, _, _)
\* The Taylor series of exp at the fraction f: term is f^k / k!.
ExpSeries(f, k, term, acc) ==
    IF term = 0 \/ k > 12 THEN acc
    ELSE LET next == RoundDiv(term * f, k * Scale)
         IN  ExpSeries(f, k + 1, next, acc + next)

RECURSIVE ExpInt(_, _)
\* acc * e^n for a plain integer n >= 0 (e is 2.718).
ExpInt(n, acc) ==
    IF n = 0 \/ acc = PosInf THEN acc ELSE ExpInt(n - 1, MulAbs(acc, 2718))

\* Math.exp
Exp(a) ==
    IF a = NaN THEN NaN
    ELSE IF a = PosInf THEN PosInf
    ELSE IF a = NegInf THEN 0
    ELSE Bind(ExpInt(Abs(a) \div Scale, ExpSeries(Abs(a) % Scale, 1, Scale, Scale)),
              LAMBDA pos : IF a >= 0 THEN pos
                           ELSE IF pos = PosInf THEN 0
                           ELSE RoundDiv(Scale * Scale, pos))

\* 2 (z + z^3/3 + z^5/5 + z^7/7) for z2 = z^2.
LnSeries(z, z2) ==
    Bind(RoundDiv(z * z2, Scale), LAMBDA z3 :
    Bind(RoundDiv(z3 * z2, Scale), LAMBDA z5 :
        2 * z + RoundDiv(2 * z3, 3) + RoundDiv(2 * z5, 5)
            + RoundDiv(2 * RoundDiv(z5 * z2, Scale), 7)))

RECURSIVE LnReduce(_, _)
\* x > 0 brought into [Scale, 2*Scale) by halving or doubling: <<x', k>> with
\* x = x' * 2^k.
LnReduce(x, k) ==
    IF x >= 2 * Scale THEN LnReduce(RoundDiv(x, 2), k + 1)
    ELSE IF x < Scale THEN LnReduce(2 * x, k - 1)
    ELSE <<x, k>>

\* Math.log: -Infinity at 0, NaN below 0.  ln 2 is 0.693; on [1, 2) the
\* series 2 (z + z^3/3 + z^5/5 + z^7/7) with z = (x - 1) / (x + 1).
Ln(a) ==
    IF a = NaN \/ a < 0 THEN NaN
    ELSE IF a = 0 THEN NegInf
    ELSE IF a = PosInf THEN PosInf
    ELSE Bind(LnReduce(a, 0), LAMBDA red :
         Bind(RoundDiv((red[1] - Scale) * Scale, red[1] + Scale), LAMBDA z :
             red[2] * 693 + LnSeries(z, RoundDiv(z * z, Scale))))

(***************************************************************************)
(*                               Strings                                   *)
(***************************************************************************)
\* The value undefined, where a string is expected.
Undefined == <<"undefined">>

S_asian == <<"a", "s", "i", "a", "n">>
S_barrier == <<"b", "a", "r", "r", "i", "e", "r">>
S_lookback == <<"l", "o", "o", "k", "b", "a", "c", "k">>
S_call == <<"c", "a", "l", "l">>
S_put == <<"p", "u", "t">>
S_up == <<"u", "p">>
S_down == <<"d", "o", "w", "n">>
S_in == <<"i", "n">>
S_out == <<"o", "u", "t">>
S_and == <<"a", "n", "d">>
S_fixed == <<"f", "i", "x", "e", "d">>
S_floating == <<"f", "l", "o", "a", "t", "i", "n", "g">>
S_arithmetic == <<"a", "r", "i", "t", "h", "m", "e", "t", "i", "c">>
S_geometric == <<"g", "e", "o", "m", "e", "t", "r", "i", "c">>
S_vanilla == <<"v", "a", "n", "i", "l", "l", "a">>
Dash == <<"-">>

RECURSIVE JoinDash(_)
\* The words of ws joined by "-".
JoinDash(ws) ==
    IF ws = <<>> THEN <<>>
    ELSE IF Len(ws) = 1 THEN ws[1]
    ELSE ws[1] \o Dash \o JoinDash(Tail(ws))

S_up_and_out == JoinDash(<<S_up, S_and, S_out>>)
S_up_and_in == JoinDash(<<S_up, S_and, S_in>>)
S_down_and_out == JoinDash(<<S_down, S_and, S_out>>)
S_down_and_in == JoinDash(<<S_down, S_and, S_in>>)

\* String.prototype.startsWith
StartsWith(s, p) == Len(s) >= Len(p) /\ SubSeq(s, 1, Len(p)) = p

\* String.prototype.endsWith
EndsWith(s, p) == Len(s) >= Len(p) /\ SubSeq(s, Len(s) - Len(p) + 1, Len(s)) = p

RECURSIVE SplitFrom(_, _, _)
\* s.split("-"), scanning from index i with the current piece cur.
SplitFrom(s, i, cur) ==
    IF i > Len(s) THEN <<cur>>
    ELSE IF s[i] = "-" THEN <<cur>> \o SplitFrom(s, i + 1, <<>>)
    ELSE SplitFrom(s, i + 1, Append(cur, s[i]))

\* String.prototype.split('-')
Split(s) == SplitFrom(s, 1, <<>>)

\* arr[i] of a JavaScript array of strings (0-based i): undefined past the end.
At(arr, i) == IF i + 1 <= Len(arr) THEN arr[i + 1] ELSE Undefined

\* s.replace(/(call|put)$/, '')
StripCallPut(s) ==
    IF EndsWith(s, S_call) THEN SubSeq(s, 1, Len(s) - Len(S_call))
    ELSE IF EndsWith(s, S_put) THEN SubSeq(s, 1, Len(s) - Len(S_put))
    ELSE s

\* x || dflt for a string-valued x: undefined and '' are falsy.
OrElseStr(x, dflt) == IF x = Undefined \/ x = <<>> THEN dflt ELSE x

\* The value undefined, where a number is expected.
UndefinedNum == NaN - 1

\* undefined used in arithmetic is NaN.
ToNumber(x) == IF x = UndefinedNum THEN NaN ELSE x

\* x || dflt for a number-valued x: undefined, 0 and NaN are falsy.
OrElseNum(x, dflt) == IF x = UndefinedNum \/ x = 0 \/ x = NaN THEN dflt ELSE x

(***************************************************************************)
(*                     Results of calls that may throw                     *)
(***************************************************************************)
Ok(v) == [ok |-> TRUE, val |-> v, err |-> ""]
Throw(msg) == [ok |-> FALSE, val |-> 0, err |-> msg]

E_UpBarrier == "Up barrier must be above spot price"
E_DownBarrier == "Down barrier must be below spot price"
E_InvalidType == "Invalid option type"
E_TypeError == "TypeError: Cannot read properties of undefined"
E_Analytical == "Analytical solution only available for up-and-out calls and down-and-out puts"
E_NotPD == "Matrix is not positive definite"
E_Dimensions == "Invalid matrix dimensions for multiplication"

(***************************************************************************)
(*                        Option instances                                 *)
(***************************************************************************)
\* new MonteCarloSimulation(params): the fields every option carries.  The
\* fields of the subclasses are present and unset (undefined).
MonteCarloSimulation(params) ==
    [family |-> S_vanilla,
     S0 |-> params.spot,
     K |-> params.strike,
     sigma |-> params.volatility,
     r |-> params.riskFreeRate,
     T |-> params.maturity,
     steps |-> params.steps,
     simulations |-> params.simulations,
     dt |-> DivInt(ToNumber(params.maturity), params.steps),
     useAntithetic |-> params.useAntithetic,
     useStratified |-> params.useStratified,
     jumpDiffusion |-> params.jumpDiffusion,
     type |-> IF params.type = Undefined THEN S_call ELSE params.type,
     averageType |-> Undefined,
     barrierType |-> Undefined,
     barrier |-> NaN,
     lookbackType |-> Undefined]

\* new AsianOption(params)
AsianOption(params) ==
    Ok([MonteCarloSimulation(params) EXCEPT
           !.family = S_asian,
           !.type = OrElseStr(params.type, S_call),
           !.averageType = OrElseStr(params.averageType, S_arithmetic)])

\* new BarrierOption(params): throws on a barrier on the wrong side of spot.
BarrierOption(params) ==
    LET base == MonteCarloSimulation(params)
        bt == OrElseStr(params.barrierType, S_up_and_out)
        b == OrElseNum(params.barrier, Mul(base.K, 1200))
    IN  IF StartsWith(bt, S_up) /\ Le(b, base.S0) THEN Throw(E_UpBarrier)
        ELSE IF StartsWith(bt, S_down) /\ Ge(b, base.S0) THEN Throw(E_DownBarrier)
        ELSE Ok([base EXCEPT !.family = S_barrier,
                             !.type = OrElseStr(params.type, S_call),
                             !.barrierType = bt,
                             !.barrier = b])

\* new LookbackOption(params)
LookbackOption(params) ==
    Ok([MonteCarloSimulation(params) EXCEPT
           !.family = S_lookback,
           !.type = OrElseStr(params.type, S_call),
           !.lookbackType = OrElseStr(params.lookbackType, S_fixed)])

\* createOption(params) of the pricing worker.  The destructuring
\* [baseType, subType] = optionType.split('-') keeps the first two pieces.
createOption(params) ==
    LET parts == Split(params.optionType)
        baseType == At(parts, 0)
        subType == At(parts, 1)
    IN  IF baseType = S_asian THEN
            AsianOption([params EXCEPT !.type = subType])
        ELSE IF baseType = S_barrier THEN
            (IF subType = Undefined THEN Throw(E_TypeError)
             ELSE BarrierOption([params EXCEPT
                      !.type = IF EndsWith(subType, S_call) THEN S_call ELSE S_put,
                      !.barrierType = StripCallPut(subType)]))
        ELSE IF baseType = S_lookback THEN
            LookbackOption([params EXCEPT !.lookbackType = subType])
        ELSE Throw(E_InvalidType)

(***************************************************************************)
(*                 Array helpers (0-based code, 1-based model)             *)
(***************************************************************************)
\* path[path.length - 1]
Last(path) == path[Len(path)]

RECURSIVE ReduceAddFrom(_, _, _)
\* The left fold acc + arr[i] + ... + arr[n].
ReduceAddFrom(arr, i, acc) ==
    IF i > Len(arr) THEN acc ELSE ReduceAddFrom(arr, i + 1, Add(acc, arr[i]))

\* arr.reduce((a, b) => a + b) on a non-empty array: the fold starts from
\* arr[0].
ReduceAdd(arr) == ReduceAddFrom(arr, 2, arr[1])

\* arr.reduce((a, b) => a + b, 0)
ReduceAdd0(arr) == ReduceAddFrom(arr, 1, 0)

RECURSIVE ReduceAddLogFrom(_, _, _)
\* The left fold acc + Math.log(arr[i]) + ... + Math.log(arr[n]).
ReduceAddLogFrom(arr, i, acc) ==
    IF i > Len(arr) THEN acc ELSE ReduceAddLogFrom(arr, i + 1, Add(acc, Ln(arr[i])))

\* path.reduce((a, b) => a + Math.log(b)) on a non-empty array: with no
\* initial value the fold starts from path[0] itself, not from its logarithm.
ReduceAddLog(arr) == ReduceAddLogFrom(arr, 2, arr[1])

RECURSIVE MaxFrom(_, _, _)
MaxFrom(arr, i, acc) ==
    IF i > Len(arr) THEN acc ELSE MaxFrom(arr, i + 1, MathMax2(acc, arr[i]))

RECURSIVE MinFrom(_, _, _)
MinFrom(arr, i, acc) ==
    IF i > Len(arr) THEN acc ELSE MinFrom(arr, i + 1, MathMin2(acc, arr[i]))

\* arr.reduce((a, b) => a + Math.pow(b - mean, 2), 0)
ReduceAddSq(arr, mean) ==
    ReduceAdd0([i \in 1..Len(arr) |-> Mul(Sub(arr[i], mean), Sub(arr[i], mean))])

\* Math.max(...path): -Infinity for no arguments.
MathMax(path) == MaxFrom(path, 1, NegInf)

\* Math.min(...path): +Infinity for no arguments.
MathMin(path) == MinFrom(path, 1, PosInf)

(***************************************************************************)
(*                 MonteCarloSimulation: pricing helpers                   *)
(***************************************************************************)
\* Math.exp(-this.r * this.T)
Discount(opt) == Exp(Mul(Neg(opt.r), opt.T))

\* calculateConfidenceInterval(prices), prices non-empty.
calculateConfidenceInterval(prices) ==
    Bind(DivInt(ReduceAdd(prices), Len(prices)), LAMBDA mean :
    Bind(DivInt(ReduceAddSq(prices, mean), Len(prices) - 1), LAMBDA variance :
    Bind(Mul(1960, Sqrt(DivInt(variance, Len(prices)))), LAMBDA ci95 :
        [mean |-> mean, lower |-> Sub(mean, ci95), upper |-> Add(mean, ci95)])))

\* this.type === 'call' ? Math.max(x - K, 0) : Math.max(K - x, 0)
VanillaPayoff(opt, x) ==
    IF opt.type = S_call THEN MathMax2(Sub(x, opt.K), 0)
    ELSE MathMax2(Sub(opt.K, x), 0)

\* The tail shared by every calculatePrice: the price, the confidence
\* interval and the discounted payoffs of the undiscounted payoffs.
PricingResult(opt, paths, payoffs) ==
    Bind(Discount(opt), LAMBDA disc :
    Bind([i \in 1..Len(payoffs) |-> Mul(payoffs[i], disc)], LAMBDA discounted :
        [price |-> Mul(DivInt(ReduceAdd(payoffs), Len(payoffs)), disc),
         confidence |-> calculateConfidenceInterval(discounted),
         paths |-> paths,
         payoffs |-> discounted]))

\* MonteCarloSimulation.calculatePrice: the undiscounted payoffs.
VanillaPayoffs(opt, paths) ==
    [i \in 1..Len(paths) |-> VanillaPayoff(opt, Last(paths[i]))]

\* MonteCarloSimulation.calculatePrice(paths), paths given and non-empty.
Vanilla_calculatePrice(opt, paths) ==
    PricingResult(opt, paths, VanillaPayoffs(opt, paths))

(***************************************************************************)
(*                             AsianOption                                 *)
(***************************************************************************)
\* path.reduce((a, b) => a + b) / path.length
ArithmeticAverage(path) == DivInt(ReduceAdd(path), Len(path))

\* Math.exp(path.reduce((a, b) => a + Math.log(b)) / path.length)
GeometricAverage(path) == Exp(DivInt(ReduceAddLog(path), Len(path)))

\* The local `average` of AsianOption.calculatePrice.
AsianAverage(opt, path) ==
    IF opt.averageType = S_arithmetic THEN ArithmeticAverage(path)
    ELSE GeometricAverage(path)

\* AsianOption.calculatePrice: the undiscounted payoffs.
AsianPayoffs(opt, paths) ==
    [i \in 1..Len(paths) |->
        IF opt.type = S_call THEN MathMax2(Sub(AsianAverage(opt, paths[i]), opt.K), 0)
        ELSE MathMax2(Sub(opt.K, AsianAverage(opt, paths[i])), 0)]

\* AsianOption.calculatePrice(paths), paths given and non-empty.
Asian_calculatePrice(opt, paths) ==
    PricingResult(opt, paths, AsianPayoffs(opt, paths))

\* calculateControlVariate: the geometric payoffs.
ControlGeometricPayoffs(opt, paths) ==
    [i \in 1..Len(paths) |->
        IF opt.type = S_call THEN MathMax2(Sub(GeometricAverage(paths[i]), opt.K), 0)
        ELSE MathMax2(Sub(opt.K, GeometricAverage(paths[i])), 0)]

\* calculateControlVariate: the arithmetic payoffs.
ControlArithmeticPayoffs(opt, paths) ==
    [i \in 1..Len(paths) |->
        IF opt.type = S_call THEN MathMax2(Sub(ArithmeticAverage(paths[i]), opt.K), 0)
        ELSE MathMax2(Sub(opt.K, ArithmeticAverage(paths[i])), 0)]

\* AsianOption.normalCDF(x): the polynomial approximation, its coefficients
\* in fixed point.
normalCDF(x) ==
    Bind(Div(Scale, Add(Scale, Mul(232, MathAbs(x)))), LAMBDA t :
    Bind(Mul(399, Exp(DivInt(Neg(Mul(x, x)), 2))), LAMBDA d :
    Bind(Mul(Mul(d, t),
             Add(319, Mul(t, Add(0 - 357, Mul(t, Add(1781,
                 Mul(t, Add(0 - 1821, Mul(t, 1330))))))))), LAMBDA p :
        IF Gt(x, 0) THEN Sub(Scale, p) ELSE p)))

\* calculateGeometricPrice()
calculateGeometricPrice(opt) ==
    Bind(opt.steps + 1, LAMBDA n :
    Bind(Mul(opt.sigma, Sqrt(RoundDiv((n + 1) * (2 * n + 1) * Scale, 6 * n * n))),
         LAMBDA sigma_adj :
    Bind(Mul(500, Mul(sigma_adj, sigma_adj)), LAMBDA half_var :
    Bind(Add(DivInt(Mul(Sub(opt.r, Mul(500, Mul(opt.sigma, opt.sigma))),
                        (n + 1) * Scale), 2 * n),
             half_var), LAMBDA mu_adj :
    Bind(Div(Add(Ln(Div(opt.S0, opt.K)), Mul(Add(mu_adj, half_var), opt.T)),
             Mul(sigma_adj, Sqrt(opt.T))), LAMBDA d1 :
    Bind(Sub(d1, Mul(sigma_adj, Sqrt(opt.T))), LAMBDA d2 :
    Bind(Mul(opt.S0, Exp(Mul(Sub(mu_adj, opt.r), opt.T))), LAMBDA fwd :
    Bind(Mul(opt.K, Exp(Mul(Neg(opt.r), opt.T))), LAMBDA pvK :
        IF opt.type = S_call
        THEN Sub(Mul(fwd, normalCDF(d1)), Mul(pvK, normalCDF(d2)))
        ELSE Sub(Mul(pvK, normalCDF(Neg(d2))), Mul(fwd, normalCDF(Neg(d1))))))))))))

\* calculateCovariance(x, y), x non-empty.
calculateCovariance(x, y) ==
    Bind(DivInt(ReduceAdd(x), Len(x)), LAMBDA meanX :
    Bind(DivInt(ReduceAdd(y), Len(x)), LAMBDA meanY :
        DivInt(ReduceAdd0([i \in 1..Len(x) |->
                              Mul(Sub(x[i], meanX), Sub(y[i], meanY))]),
               Len(x) - 1)))

\* calculateVariance(x), x non-empty.
calculateVariance(x) ==
    Bind(DivInt(ReduceAdd(x), Len(x)), LAMBDA mean :
        DivInt(ReduceAddSq(x, mean), Len(x) - 1))

\* ControlVariateLocals with the adjustment added instead of subtracted.
ControlVariateLocals_plus(opt, paths) ==
    Bind(ControlArithmeticPayoffs(opt, paths), LAMBDA arithmeticPayoffs :
    Bind(ControlGeometricPayoffs(opt, paths), LAMBDA geometricPayoffs :
    Bind(calculateGeometricPrice(opt), LAMBDA geometricPrice :
    Bind(Div(calculateCovariance(arithmeticPayoffs, geometricPayoffs),
             calculateVariance(geometricPayoffs)), LAMBDA beta :
        [arithmeticAvg |-> [i \in 1..Len(paths) |-> ArithmeticAverage(paths[i])],
         geometricAvg |-> [i \in 1..Len(paths) |-> GeometricAverage(paths[i])],
         arithmeticPayoffs |-> arithmeticPayoffs,
         geometricPayoffs |-> geometricPayoffs,
         geometricPrice |-> geometricPrice,
         beta |-> beta,
         adjustedPayoffs |->
             [i \in 1..Len(paths) |->
                 Add(arithmeticPayoffs[i],
                     Mul(beta, Sub(geometricPayoffs[i], geometricPrice)))]]))))

\* The locals of calculateControlVariate(paths), paths non-empty.
ControlVariateLocals(opt, paths) ==
    Bind(ControlArithmeticPayoffs(opt, paths), LAMBDA arithmeticPayoffs :
    Bind(ControlGeometricPayoffs(opt, paths), LAMBDA geometricPayoffs :
    Bind(calculateGeometricPrice(opt), LAMBDA geometricPrice :
    Bind(Div(calculateCovariance(arithmeticPayoffs, geometricPayoffs),
             calculateVariance(geometricPayoffs)), LAMBDA beta :
        [arithmeticAvg |-> [i \in 1..Len(paths) |-> ArithmeticAverage(paths[i])],
         geometricAvg |-> [i \in 1..Len(paths) |-> GeometricAverage(paths[i])],
         arithmeticPayoffs |-> arithmeticPayoffs,
         geometricPayoffs |-> geometricPayoffs,
         geometricPrice |-> geometricPrice,
         beta |-> beta,
         adjustedPayoffs |->
             [i \in 1..Len(paths) |->
                 Sub(arithmeticPayoffs[i],
                     Mul(beta, Sub(geometricPayoffs[i], geometricPrice)))]]))))

\* calculateControlVariate(paths), paths non-empty.
calculateControlVariate(opt, paths) ==
    PricingResult(opt, paths, ControlVariateLocals(opt, paths).adjustedPayoffs)

(***************************************************************************)
(*                            BarrierOption                                *)
(***************************************************************************)
\* The mutant of checkBarrierHit that tests strictly (> and <).
checkBarrierHit_strict(opt, path) ==
    IF StartsWith(opt.barrierType, S_up)
    THEN \E i \in 1..Len(path) : Gt(path[i], opt.barrier)
    ELSE \E i \in 1..Len(path) : Lt(path[i], opt.barrier)

\* checkBarrierHit(path)
checkBarrierHit(opt, path) ==
    IF StartsWith(opt.barrierType, S_up)
    THEN \E i \in 1..Len(path) : Ge(path[i], opt.barrier)
    ELSE \E i \in 1..Len(path) : Le(path[i], opt.barrier)

\* BarrierPayoffs with the two barrier conditions exchanged: an out option
\* pays on the paths that hit.
BarrierPayoffs_hitPays(opt, paths) ==
    [i \in 1..Len(paths) |->
        LET isBarrierHit == checkBarrierHit(opt, paths[i])
            finalPrice == Last(paths[i])
        IN  IF EndsWith(opt.barrierType, S_out)
            THEN (IF isBarrierHit THEN VanillaPayoff(opt, finalPrice) ELSE 0)
            ELSE (IF ~isBarrierHit THEN VanillaPayoff(opt, finalPrice) ELSE 0)]

\* BarrierOption.calculatePrice: the undiscounted payoffs.
BarrierPayoffs(opt, paths) ==
    [i \in 1..Len(paths) |->
        LET isBarrierHit == checkBarrierHit(opt, paths[i])
            finalPrice == Last(paths[i])
        IN  IF EndsWith(opt.barrierType, S_out)
            THEN (IF ~isBarrierHit THEN VanillaPayoff(opt, finalPrice) ELSE 0)
            ELSE (IF isBarrierHit THEN VanillaPayoff(opt, finalPrice) ELSE 0)]

\* BarrierOption.calculatePrice(paths), paths given and non-empty.
Barrier_calculatePrice(opt, paths) ==
    PricingResult(opt, paths, BarrierPayoffs(opt, paths))

\* AdjustedBarrier with the two signs exchanged.
AdjustedBarrier_outward(opt) ==
    Bind(DivInt(opt.T, opt.steps), LAMBDA h :
    Bind(Mul(Mul(583, opt.sigma), Sqrt(h)), LAMBDA adjustment :
        IF StartsWith(opt.barrierType, S_up)
        THEN Mul(opt.barrier, Exp(adjustment))
        ELSE Mul(opt.barrier, Exp(Neg(adjustment)))))

\* The barrier adjustForContinuousBarrier substitutes.
AdjustedBarrier(opt) ==
    Bind(DivInt(opt.T, opt.steps), LAMBDA h :
    Bind(Mul(Mul(583, opt.sigma), Sqrt(h)), LAMBDA adjustment :
        IF StartsWith(opt.barrierType, S_up)
        THEN Mul(opt.barrier, Exp(Neg(adjustment)))
        ELSE Mul(opt.barrier, Exp(adjustment))))

\* adjustForContinuousBarrier(result): the re-evaluation of result.paths with
\* the adjusted barrier in place (the barrier field is put back afterwards).
adjustForContinuousBarrier(opt, result) ==
    Barrier_calculatePrice([opt EXCEPT !.barrier = AdjustedBarrier(opt)], result.paths)

\* payoffs.reduce((a, b) => a + b) on an empty array.
E_EmptyReduce == "TypeError: Reduce of empty array with no initial value"

\* this.calculatePrice(paths) of a BarrierOption for any array of paths: an
\* empty array makes the reduce of the payoffs throw.
Barrier_calculatePriceOutcome(opt, paths) ==
    IF Len(paths) = 0 THEN Throw(E_EmptyReduce)
    ELSE Ok(Barrier_calculatePrice(opt, paths))

\* A call of adjustForContinuousBarrier(result) as a whole: its locals, its
\* outcome and the option it leaves.  this.barrier is assigned the adjusted
\* barrier before the re-evaluation and tempBarrier after it; a throw of the
\* re-evaluation skips the second assignment.
AdjustBarrierCall(opt, resultArg) ==
    Bind(AdjustedBarrier(opt), LAMBDA adjustedBarrier :
    Bind(Barrier_calculatePriceOutcome([opt EXCEPT !.barrier = adjustedBarrier],
                                       resultArg.paths), LAMBDA adjustedResult :
        [adjustedBarrier |-> adjustedBarrier,
         tempBarrier |-> opt.barrier,
         outcome |-> adjustedResult,
         this |-> IF adjustedResult.ok THEN [opt EXCEPT !.barrier = opt.barrier]
                  ELSE [opt EXCEPT !.barrier = adjustedBarrier]]))

\* Math.pow(base, e) for a positive base.
MathPow(base, e) == Exp(Mul(e, Ln(base)))

\* The locals of calculateAnalyticalPrice().  BarrierOption.normalCDF is the
\* same approximation as AsianOption.normalCDF.
AnalyticalLocals(opt) ==
    Bind(Mul(opt.sigma, opt.sigma), LAMBDA sigma2 :
    Bind(Sub(opt.r, Mul(500, sigma2)), LAMBDA mu :
    Bind(Sqrt(opt.T), LAMBDA root_T :
    Bind(Mul(opt.sigma, root_T), LAMBDA vol :
    Bind(Div(Mul(Add(mu, sigma2), root_T), opt.sigma), LAMBDA shift :
    Bind(Div(Add(mu, sigma2), sigma2), LAMBDA lambda :
        [root_T |-> root_T,
         x1 |-> Add(Div(Ln(Div(opt.S0, opt.K)), vol), shift),
         x2 |-> Add(Div(Ln(Div(opt.S0, opt.barrier)), vol), shift),
         y1 |-> Add(Div(Ln(Div(Mul(opt.barrier, opt.barrier), Mul(opt.S0, opt.K))),
                        vol), shift),
         y2 |-> Add(Div(Ln(Div(opt.barrier, opt.S0)), vol), shift),
         lambda |-> lambda,
         z |-> Add(Div(Ln(Div(opt.barrier, opt.S0)), vol),
                   Mul(Mul(lambda, opt.sigma), root_T))]))))))

\* The closed form returned for an up-and-out call.
UpAndOutCallPrice(opt) ==
    Bind(AnalyticalLocals(opt), LAMBDA l :
        Mul(Mul(opt.S0, Exp(Mul(Neg(opt.r), opt.T))),
            Sub(Sub(normalCDF(l.x1), normalCDF(l.x2)),
                Mul(MathPow(Div(opt.barrier, opt.S0), Mul(2 * Scale, l.lambda)),
                    Sub(normalCDF(Neg(l.y1)), normalCDF(Neg(l.y2)))))))

\* The closed form returned for a down-and-out put.
DownAndOutPutPrice(opt) ==
    Bind(AnalyticalLocals(opt), LAMBDA l :
    Bind(Div(opt.barrier, opt.S0), LAMBDA ratio :
    Bind(Mul(opt.sigma, l.root_T), LAMBDA vol :
    Bind(Mul(opt.K, Exp(Mul(Neg(opt.r), opt.T))), LAMBDA pvK :
    Bind(Mul(2 * Scale, l.lambda), LAMBDA two_lambda :
        Add(Sub(Sub(Mul(pvK, normalCDF(Add(Neg(l.x1), vol))),
                    Mul(opt.S0, normalCDF(Neg(l.x1)))),
                Mul(Mul(pvK, MathPow(ratio, two_lambda)), normalCDF(l.z))),
            Mul(Mul(opt.S0, MathPow(ratio, Sub(two_lambda, 2 * Scale))),
                normalCDF(Sub(l.z, vol)))))))))

\* The mutant of calculateAnalyticalPrice that tests only the barrier type.
Barrier_calculateAnalyticalPrice_anyType(opt) ==
    IF opt.barrierType = S_up_and_out THEN Ok(UpAndOutCallPrice(opt))
    ELSE IF opt.barrierType = S_down_and_out THEN Ok(DownAndOutPutPrice(opt))
    ELSE Throw(E_Analytical)

\* BarrierOption.calculateAnalyticalPrice(): the closed form, or the throw.
Barrier_calculateAnalyticalPrice(opt) ==
    IF opt.type = S_call /\ opt.barrierType = S_up_and_out
    THEN Ok(UpAndOutCallPrice(opt))
    ELSE IF opt.type = S_put /\ opt.barrierType = S_down_and_out
    THEN Ok(DownAndOutPutPrice(opt))
    ELSE Throw(E_Analytical)

(***************************************************************************)
(*                            LookbackOption                               *)
(***************************************************************************)
\* The mutant of LookbackPayoff whose extrema skip the starting price.
LookbackPayoff_skipFirst(opt, path) ==
    LET rest == SubSeq(path, 2, Len(path))
    IN  IF opt.lookbackType = S_fixed THEN
            (IF opt.type = S_call THEN MathMax2(Sub(MathMax(rest), opt.K), 0)
             ELSE MathMax2(Sub(opt.K, MathMin(rest)), 0))
        ELSE
            (IF opt.type = S_call THEN MathMax2(Sub(Last(path), MathMin(rest)), 0)
             ELSE MathMax2(Sub(MathMax(rest), Last(path)), 0))

\* The callback of LookbackOption.calculatePrice: one path's payoff.
LookbackPayoff(opt, path) ==
    IF opt.lookbackType = S_fixed THEN
        (IF opt.type = S_call THEN MathMax2(Sub(MathMax(path), opt.K), 0)
         ELSE MathMax2(Sub(opt.K, MathMin(path)), 0))
    ELSE
        (IF opt.type = S_call THEN MathMax2(Sub(Last(path), MathMin(path)), 0)
         ELSE MathMax2(Sub(MathMax(path), Last(path)), 0))

\* LookbackOption.calculatePrice: the undiscounted payoffs.
LookbackPayoffs(opt, paths) ==
    [i \in 1..Len(paths) |-> LookbackPayoff(opt, paths[i])]

\* LookbackOption.calculatePrice(paths), paths given and non-empty.
Lookback_calculatePrice(opt, paths) ==
    PricingResult(opt, paths, LookbackPayoffs(opt, paths))

\* adjustForContinuousMonitoring(result)
adjustForContinuousMonitoring(opt, result) ==
    Bind(DivInt(opt.T, opt.steps), LAMBDA h :
    Bind(Mul(Mul(583, opt.sigma), Sqrt(h)), LAMBDA adjustment :
    Bind([i \in 1..Len(result.payoffs) |-> Mul(result.payoffs[i], Exp(adjustment))],
         LAMBDA adjustedPayoffs :
        [price |-> DivInt(ReduceAdd(adjustedPayoffs), Len(adjustedPayoffs)),
         confidence |-> calculateConfidenceInterval(adjustedPayoffs),
         paths |-> result.paths,
         payoffs |-> adjustedPayoffs])))

\* option.calculatePrice(paths): the method of the option's own class.
calculatePrice(opt, paths) ==
    IF opt.family = S_asian THEN Asian_calculatePrice(opt, paths)
    ELSE IF opt.family = S_barrier THEN Barrier_calculatePrice(opt, paths)
    ELSE IF opt.family = S_lookback THEN Lookback_calculatePrice(opt, paths)
    ELSE Vanilla_calculatePrice(opt, paths)

\* The locals of calculatePrice(paths) that the result does not carry.
PriceLocals(opt, paths) ==
    IF opt.family = S_asian THEN
        [payoffs |-> AsianPayoffs(opt, paths),
         average |-> [i \in 1..Len(paths) |-> AsianAverage(opt, paths[i])]]
    ELSE IF opt.family = S_barrier THEN
        [payoffs |-> BarrierPayoffs(opt, paths),
         isBarrierHit |-> [i \in 1..Len(paths) |-> checkBarrierHit(opt, paths[i])]]
    ELSE IF opt.family = S_lookback THEN
        [payoffs |-> LookbackPayoffs(opt, paths)]
    ELSE
        [payoffs |-> VanillaPayoffs(opt, paths)]

(***************************************************************************)
(*                  MonteCarloSimulation: path simulation                  *)
(***************************************************************************)
\* c5 x^5 + ... + c0 by Horner's rule: ((((c[1] x + c[2]) x + ...) x + c[n]).
RECURSIVE Horner(_, _, _, _)
Horner(c, i, x, acc) ==
    IF i > Len(c) THEN acc ELSE Horner(c, i + 1, x, Add(Mul(acc, x), c[i]))

Poly(c, x) == Horner(c, 2, x, c[1])

\* normalInverse(p): Acklam's rational approximation, its coefficients in
\* fixed point.  p_low is 0.02425 and p_high is 1 - p_low.
normalInverse(p) ==
    LET a == <<0 - 39697, 220946, 0 - 275929, 138358, 0 - 30665, 2507>>
        b == <<0 - 54476, 161586, 0 - 155699, 66801, 0 - 13281, 1000>>
        c == <<0 - 8, 0 - 322, 0 - 2401, 0 - 2550, 4375, 2938>>
        d == <<8, 322, 2445, 3754, 1000>>
        p_low == 24
        p_high == Scale - p_low
    IN  IF Lt(p, p_low) THEN
            Bind(Sqrt(Mul(0 - 2000, Ln(p))), LAMBDA q :
                Div(Poly(c, q), Poly(d, q)))
        ELSE IF Le(p, p_high) THEN
            Bind(Sub(p, 500), LAMBDA q :
            Bind(Mul(q, q), LAMBDA r :
                Div(Mul(Poly(a, r), q), Poly(b, r))))
        ELSE
            Bind(Sqrt(Mul(0 - 2000, Ln(Sub(Scale, p)))), LAMBDA q :
                Div(Neg(Poly(c, q)), Poly(d, q)))

\* Math.ceil(this.simulations / 2) when antithetic, else this.simulations.
effectiveSimulations(opt) ==
    IF opt.useAntithetic THEN (opt.simulations + 1) \div 2 ELSE opt.simulations

\* this.generateRandomNumbers()[0] when Math.random() returns u for the first
\* draw: the first stratum when stratified, a plain draw otherwise.  The
\* antithetic mirror images are appended after the draws and leave index 0.
FirstDraw(opt, u) ==
    IF opt.useStratified
    THEN normalInverse(DivInt(Add(0, u), effectiveSimulations(opt)))
    ELSE normalInverse(u)

\* The arguments generateRandomNumbers passes to normalInverse when
\* Math.random() returns us[1], us[2], ...: (i + us) / effectiveSimulations
\* for the stratum i = 0, 1, ... when stratified, the uniform itself otherwise.
NormalInverseArgs(opt, us) ==
    [i \in 1..effectiveSimulations(opt) |->
        IF opt.useStratified
        THEN DivInt(Add((i - 1) * Scale, us[i]), effectiveSimulations(opt))
        ELSE us[i]]

\* generateRandomNumbers without the slice.
generateRandomNumbers_unsliced(opt, us) ==
    Bind([i \in 1..effectiveSimulations(opt) |->
             normalInverse(NormalInverseArgs(opt, us)[i])], LAMBDA z :
        IF opt.useAntithetic
        THEN z \o [i \in 1..Len(z) |-> Neg(z[i])]
        ELSE z)

\* generateRandomNumbers() when Math.random() returns us[1], us[2], ...
generateRandomNumbers(opt, us) ==
    Bind([i \in 1..effectiveSimulations(opt) |->
             normalInverse(NormalInverseArgs(opt, us)[i])], LAMBDA z :
        IF opt.useAntithetic
        THEN SubSeq(z \o [i \in 1..Len(z) |-> Neg(z[i])], 1, opt.simulations)
        ELSE z)

\* One step of simulatePaths without a jump: the next price after `price`
\* when the step's draw is z.
NextPrice(opt, price, z) ==
    LET drift == Mul(Sub(opt.r, Mul(500, Mul(opt.sigma, opt.sigma))), opt.dt)
        diffusion == Mul(opt.sigma, Sqrt(opt.dt))
        movement == Add(drift, Mul(diffusion, z))
    IN  Mul(price, Exp(movement))

\* The jump parameters the constructor sets when jumpDiffusion is on:
\* lambda = 1.0, muJ = -0.1, sigmaJ = 0.2.
JumpLambda == Scale
JumpMu == 0 - 100
JumpSigma == 200

\* drift + diffusion * z of simulatePaths.
Movement(opt, z) ==
    Add(Mul(Sub(opt.r, Mul(500, Mul(opt.sigma, opt.sigma))), opt.dt),
        Mul(Mul(opt.sigma, Sqrt(opt.dt)), z))

\* What the jump block of simulatePaths adds to movement when Math.random()
\* returns uJump for the occurrence test and uSize for the jump's normal
\* draw: nothing without jump diffusion or without a jump.
JumpSize(opt, uJump, uSize) ==
    IF opt.jumpDiffusion /\ Lt(uJump, Mul(JumpLambda, opt.dt))
    THEN Add(JumpMu, Mul(JumpSigma, normalInverse(uSize)))
    ELSE 0

\* One step of simulatePaths: the next price after `price` when the step's
\* draw is z and the jump block adds jump.
NextPriceJump(opt, price, z, jump) ==
    Mul(price, Exp(IF opt.jumpDiffusion THEN Add(Movement(opt, z), jump)
                   ELSE Movement(opt, z)))

(***************************************************************************)
(*                  MonteCarloSimulation: Greeks and risk                  *)
(***************************************************************************)
\* The arithmetic value of a pricing result object: calculatePrice returns an
\* object, and an object under -, * or / converts to NaN.
ObjectToNumber(result) == NaN

\* calculateGreeks(paths): every difference is taken between the objects
\* calculatePrice returns, so every sensitivity is NaN whatever the bumped
\* simulations draw.
calculateGreeks(opt, paths) ==
    LET h == 10
        basePrice == ObjectToNumber(calculatePrice(opt, paths))
        bumped == NaN
    IN  [delta |-> Div(Sub(bumped, bumped), Mul(Mul(2000, h), opt.S0)),
         gamma |-> Div(Add(Sub(bumped, Mul(2000, basePrice)), bumped),
                       Mul(Mul(Mul(h, h), opt.S0), opt.S0)),
         theta |-> Neg(Div(Sub(bumped, basePrice), Mul(h, opt.T))),
         vega |-> Div(Sub(bumped, basePrice), Mul(h, opt.sigma)),
         rho |-> Div(Sub(bumped, basePrice), Mul(h, opt.r))]

\* The argument { ...this, <key>: value } of a bumped simulation, as the
\* constructor destructures it.  The spread copies the instance's own fields
\* (S0, K, sigma, r, T, steps, ...), so spot, strike, volatility,
\* riskFreeRate and maturity are absent unless they are the overriding key.
SpreadThis(opt, key, value) ==
    [spot |-> IF key = "spot" THEN value ELSE UndefinedNum,
     strike |-> UndefinedNum,
     volatility |-> IF key = "volatility" THEN value ELSE UndefinedNum,
     riskFreeRate |-> IF key = "riskFreeRate" THEN value ELSE UndefinedNum,
     maturity |-> IF key = "maturity" THEN value ELSE UndefinedNum,
     steps |-> opt.steps,
     simulations |-> opt.simulations,
     useAntithetic |-> opt.useAntithetic,
     useStratified |-> opt.useStratified,
     jumpDiffusion |-> opt.jumpDiffusion,
     type |-> opt.type]

\* The five simulations calculateGreeks constructs, each a plain
\* MonteCarloSimulation; h is 0.01.  pricings lists, in the order of
\* evaluation, the simulations on which sim.calculatePrice(sim.simulatePaths())
\* is evaluated after the base price: twice in the delta expression, twice in
\* the gamma expression, once each for theta, vega and rho.
GreeksSimulations(opt) ==
    [spotUp |-> MonteCarloSimulation(
                    SpreadThis(opt, "spot", Mul(opt.S0, Add(Scale, 10)))),
     spotDown |-> MonteCarloSimulation(
                    SpreadThis(opt, "spot", Mul(opt.S0, Sub(Scale, 10)))),
     thetaSim |-> MonteCarloSimulation(
                    SpreadThis(opt, "maturity", Mul(opt.T, Sub(Scale, 10)))),
     vegaSim |-> MonteCarloSimulation(
                    SpreadThis(opt, "volatility", Mul(opt.sigma, Add(Scale, 10)))),
     rhoSim |-> MonteCarloSimulation(
                    SpreadThis(opt, "riskFreeRate", Mul(opt.r, Add(Scale, 10)))),
     pricings |-> <<"spotUp", "spotDown", "spotUp", "spotDown",
                    "thetaSim", "vegaSim", "rhoSim">>]

RECURSIVE InsertSorted(_, _)
\* x put into the ascending sequence s.
InsertSorted(s, x) ==
    IF s = <<>> THEN <<x>>
    ELSE IF x < s[1] THEN <<x>> \o s
    ELSE <<s[1]>> \o InsertSorted(Tail(s), x)

RECURSIVE SortAscending(_)
\* [...arr].sort((a, b) => a - b)
SortAscending(arr) ==
    IF arr = <<>> THEN <<>>
    ELSE InsertSorted(SortAscending(Tail(arr)), arr[1])

\* arr.filter(r => r < 0)
RECURSIVE FilterNegative(_)
FilterNegative(arr) ==
    IF arr = <<>> THEN <<>>
    ELSE IF Lt(arr[1], 0) THEN <<arr[1]>> \o FilterNegative(Tail(arr))
    ELSE FilterNegative(Tail(arr))

\* calculateRiskMetrics(paths), paths non-empty.  Math.floor(0.05 * n) is the
\* 0-based index of the return taken for the value at risk.
calculateRiskMetrics(opt, paths) ==
    Bind([i \in 1..Len(paths) |-> Ln(Div(Last(paths[i]), opt.S0))], LAMBDA returns :
    Bind(SortAscending(returns), LAMBDA sortedReturns :
    Bind(DivInt(ReduceAdd(returns), Len(returns)), LAMBDA meanReturn :
    Bind(Sqrt(DivInt(ReduceAddSq(returns, meanReturn), Len(returns) - 1)),
         LAMBDA stdDev :
    Bind(FilterNegative(returns), LAMBDA negativeReturns :
    Bind(Sqrt(DivInt(ReduceAddSq(negativeReturns, 0), Len(negativeReturns))),
         LAMBDA downstdDev :
        [var95 |-> Neg(sortedReturns[((5 * Len(returns)) \div 100) + 1]),
         sharpeRatio |-> Div(Sub(meanReturn, opt.r), stdDev),
         sortinoRatio |-> Div(Sub(meanReturn, opt.r), downstdDev)]))))))

(***************************************************************************)
(*                          The pricing worker                             *)
(***************************************************************************)
\* The mutant of FinalResult that posts the raw result.
FinalResult_raw(optionType, opt, res) == Ok(res)

\* The local finalResult of self.onmessage: the raw result, or its
\* continuous-monitoring correction by the tag's prefix.  Calling a
\* correction the option's class does not have is a TypeError.
FinalResult(optionType, opt, res) ==
    IF StartsWith(optionType, S_barrier) THEN
        (IF opt.family = S_barrier THEN Ok(adjustForContinuousBarrier(opt, res))
         ELSE Throw(E_TypeError))
    ELSE IF StartsWith(optionType, S_lookback) THEN
        (IF opt.family = S_lookback THEN Ok(adjustForContinuousMonitoring(opt, res))
         ELSE Throw(E_TypeError))
    ELSE Ok(res)

\* The message posted on success: { ...finalResult, greeks, riskMetrics }.
ResultMessage(finalResult, greeks, riskMetrics) ==
    [kind |-> "result",
     price |-> finalResult.price,
     confidence |-> finalResult.confidence,
     paths |-> finalResult.paths,
     payoffs |-> finalResult.payoffs,
     greeks |-> greeks,
     riskMetrics |-> riskMetrics]

\* error.name of the error thrown with the message msg: the engine's
\* TypeError, or the Error the models and createOption construct.
ErrorName(msg) ==
    IF msg \in {E_TypeError, E_EmptyReduce} THEN "TypeError" ELSE "Error"

\* error.stack, by its first line (name and message); the frames are not
\* modelled.
ErrorStack(msg) == <<ErrorName(msg), msg>>

\* The mutant of ErrorMessage that posts a fixed text in place of the
\* error's own message.
ErrorMessage_generic(msg) ==
    [kind |-> "error",
     error |-> "Calculation failed",
     stack |-> ErrorStack(msg),
     name |-> ErrorName(msg)]

\* The message posted from the catch block:
\* { error: error.message, stack: error.stack, name: error.name }.
ErrorMessage(msg) ==
    [kind |-> "error",
     error |-> msg,
     stack |-> ErrorStack(msg),
     name |-> ErrorName(msg)]

(***************************************************************************)
(*                        Correlation utilities                            *)
(***************************************************************************)
\* matrix[i][j] used as a number (1-based here): an index past the end of
\* the row reads undefined, which is NaN in arithmetic and false in every
\* comparison.
Get(matrix, i, j) == IF j <= Len(matrix[i]) THEN matrix[i][j] ELSE NaN

\* Array(n).fill().map(() => Array(n).fill(0))
Zeros(n) == [i \in 1..n |-> [j \in 1..n |-> 0]]

RECURSIVE SumProd(_, _, _, _, _)
\* sum += L[i][k] * L[j][k] for k from k to j - 1.
SumProd(L, i, j, k, sum) ==
    IF k >= j THEN sum
    ELSE SumProd(L, i, j, k + 1, Add(sum, Mul(L[i][k], L[j][k])))

\* The mutant of CholEntry that does not divide by the pivot L[j][j].
CholEntry_noPivot(matrix, L, i, j) ==
    IF j = i THEN Sqrt(Sub(Get(matrix, i, i), SumProd(L, j, j, 1, 0)))
    ELSE Sub(Get(matrix, i, j), SumProd(L, i, j, 1, 0))

\* The value cholesky stores in L[i][j].
CholEntry(matrix, L, i, j) ==
    IF j = i THEN Sqrt(Sub(Get(matrix, i, i), SumProd(L, j, j, 1, 0)))
    ELSE Div(Sub(Get(matrix, i, j), SumProd(L, i, j, 1, 0)), L[j][j])

RECURSIVE CholRow(_, _, _, _)
\* The inner loop of cholesky: row i of L filled from column j to column i.
CholRow(matrix, L, i, j) ==
    IF j > i THEN L
    ELSE CholRow(matrix, [L EXCEPT ![i][j] = CholEntry(matrix, L, i, j)], i, j + 1)

RECURSIVE CholFrom(_, _, _)
\* The outer loop of cholesky from row i: the row, then the test of its
\* diagonal entry.
CholFrom(matrix, L, i) ==
    IF i > Len(matrix) THEN Ok(L)
    ELSE Bind(CholRow(matrix, L, i, 1), LAMBDA L2 :
             IF Le(L2[i][i], 0) THEN Throw(E_NotPD)
             ELSE CholFrom(matrix, L2, i + 1))

\* cholesky(matrix)
cholesky(matrix) == CholFrom(matrix, Zeros(Len(matrix)), 1)

RECURSIVE CorrelatedFrom(_, _, _, _, _)
\* result[i] += L[i][j] * standardNormals[j] for j from j to i.
CorrelatedFrom(L, standardNormals, i, j, acc) ==
    IF j > i THEN acc
    ELSE CorrelatedFrom(L, standardNormals, i, j + 1,
                        Add(acc, Mul(L[i][j], standardNormals[j])))

\* generateCorrelatedVariables(correlationMatrix, standardNormals): the throw
\* of cholesky propagates.
generateCorrelatedVariables(correlationMatrix, standardNormals) ==
    Bind(cholesky(correlationMatrix), LAMBDA L :
        IF ~L.ok THEN L
        ELSE Ok([i \in 1..Len(correlationMatrix) |->
                    CorrelatedFrom(L.val, standardNormals, i, 1, 0)]))

\* isSymmetric(matrix).  The tolerance 1e-10 is below the fixed-point unit.
isSymmetric(matrix) ==
    \A i \in 1..Len(matrix) : \A j \in 1..(i - 1) :
        ~Gt(MathAbs(Sub(Get(matrix, i, j), Get(matrix, j, i))), 0)

\* The mutant of isValidCorrelationMatrix without the try / catch around
\* cholesky.
isValidCorrelationMatrix_nocatch(matrix) ==
    LET n == Len(matrix)
    IN  IF ~(\A i \in 1..n : Len(matrix[i]) = n) THEN Ok(FALSE)
        ELSE IF ~isSymmetric(matrix) THEN Ok(FALSE)
        ELSE IF \E i \in 1..n : Gt(MathAbs(Sub(Get(matrix, i, i), Scale)), 0)
             THEN Ok(FALSE)
        ELSE IF \E i \in 1..n : \E j \in 1..n :
                    Lt(Get(matrix, i, j), 0 - Scale) \/ Gt(Get(matrix, i, j), Scale)
             THEN Ok(FALSE)
        ELSE IF cholesky(matrix).ok THEN Ok(TRUE) ELSE Throw(cholesky(matrix).err)

\* isValidCorrelationMatrix(matrix): Ok(boolean), the throw of cholesky
\* caught and turned into false.
isValidCorrelationMatrix(matrix) ==
    LET n == Len(matrix)
    IN  IF ~(\A i \in 1..n : Len(matrix[i]) = n) THEN Ok(FALSE)
        ELSE IF ~isSymmetric(matrix) THEN Ok(FALSE)
        ELSE IF \E i \in 1..n : Gt(MathAbs(Sub(Get(matrix, i, i), Scale)), 0)
             THEN Ok(FALSE)
        ELSE IF \E i \in 1..n : \E j \in 1..n :
                    Lt(Get(matrix, i, j), 0 - Scale) \/ Gt(Get(matrix, i, j), Scale)
             THEN Ok(FALSE)
        ELSE IF cholesky(matrix).ok THEN Ok(TRUE) ELSE Ok(FALSE)

\* transpose(matrix): reading matrix[0] of an empty array is a TypeError.
transpose(matrix) ==
    IF Len(matrix) = 0 THEN Throw(E_TypeError)
    ELSE Ok([j \in 1..Len(matrix[1]) |-> [i \in 1..Len(matrix) |-> Get(matrix, i, j)]])

RECURSIVE MultiplyFrom(_, _, _, _, _, _)
\* result[i][j] += a[i][k] * b[k][j] for k from k to p.
MultiplyFrom(a, b, i, j, k, acc) ==
    IF k > Len(b) THEN acc
    ELSE MultiplyFrom(a, b, i, j, k + 1, Add(acc, Mul(Get(a, i, k), Get(b, k, j))))

\* matrixMultiply(a, b): reading a[0] or b[0] of an empty array is a
\* TypeError.
matrixMultiply(a, b) ==
    IF Len(a) = 0 \/ Len(b) = 0 THEN Throw(E_TypeError)
    ELSE IF Len(a[1]) # Len(b) THEN Throw(E_Dimensions)
    ELSE Ok([i \in 1..Len(a) |-> [j \in 1..Len(b[1]) |->
                MultiplyFrom(a, b, i, j, 1, 0)]])

(***************************************************************************)
(*                               Bounds                                    *)
(***************************************************************************)
\* The worker's requests ask for 1..MaxSteps steps and 1..MaxSims paths.
MaxSteps == 2
MaxSims == 2
\* The path sets handed to the pricing methods directly: 1..MaxPaths paths
\* of 1..MaxPathLen prices each.
MaxPaths == 1
MaxPathLen == 3
\* The matrices handed to the correlation utilities have 0..MaxDim rows.
MaxDim == 3
\* The samples priced for their confidence interval have 2..MaxSample paths.
MaxSample == 2

(***************************************************************************)
(*                                State                                    *)
(***************************************************************************)
VARIABLES
    \* The pricing worker (self.onmessage):
    wpc,        \* "idle", "simulating" (inside simulatePaths) or "done"
    request,    \* e.data: [params, optionType]
    option,     \* the local option
    paths,      \* simulatePaths' local paths; the last path is being built
    result,     \* the local result
    posted,     \* the messages posted to the main thread, in order
    \* An option used directly:
    pOp,        \* the last operation applied
    pParams,    \* the constructor's argument
    pOption,    \* the outcome of the constructor
    pPaths,     \* the path set handed to calculatePrice
    pLocals,    \* the locals of the last pricing call (payoffs undiscounted)
    pResult,    \* what the last pricing call returned
    pAnalytical,  \* the outcome of calculateAnalyticalPrice
    \* The correlation utilities:
    mOp,        \* the last operation applied
    mInput,     \* the matrix argument
    mChol,      \* the outcome of cholesky(mInput)
    mValid,     \* the outcome of isValidCorrelationMatrix(mInput)
    mNormals,   \* the standardNormals argument
    mCorrelated, \* the outcome of generateCorrelatedVariables(mInput, mNormals)
    \* A simulation whose sampling methods are used directly:
    gOp,        \* the last operation applied or the method being executed
    gOption,    \* the simulation object
    gUniforms,  \* what Math.random() returned in the last generateRandomNumbers
    gArgs,      \* the arguments that call passed to normalInverse, in order
    gZ,         \* the array that call returned
    gPaths,     \* simulatePaths' local paths; the last path is being built
    \* The page (index.js):
    disabled,   \* calculateButton.disabled
    requests    \* one record per click on the button, in order: the promise,
                \* the timer and the worker of calculateOption's closure

wvars == <<wpc, request, option, paths, result, posted>>
pvars == <<pOp, pParams, pOption, pPaths, pLocals, pResult, pAnalytical>>
mvars == <<mOp, mInput, mChol, mValid, mNormals, mCorrelated>>
gvars == <<gOp, gOption, gUniforms, gArgs, gZ, gPaths>>
uvars == <<disabled, requests>>
vars == <<wvars, pvars, mvars, gvars, uvars>>

None == [ok |-> FALSE, val |-> 0, err |-> "none"]

WorkerIdle ==
    /\ wpc = "idle"
    /\ request = None
    /\ option = None
    /\ paths = <<>>
    /\ result = None
    /\ posted = <<>>

PayoffIdle ==
    /\ pOp = "none"
    /\ pParams = None
    /\ pOption = None
    /\ pPaths = <<>>
    /\ pLocals = None
    /\ pResult = None
    /\ pAnalytical = None

MatrixIdle ==
    /\ mOp = "none"
    /\ mInput = <<>>
    /\ mChol = None
    /\ mValid = None
    /\ mNormals = <<>>
    /\ mCorrelated = None

(***************************************************************************)
(*              Specification Spec: the pricing worker                     *)
(***************************************************************************)
\* The sixteen variant tags of the request grammar, as their words.
GrammarTagWords ==
    {<<S_asian, t>> : t \in {S_call, S_put}}
    \cup {<<S_barrier, d, k, t>> :
             d \in {S_up, S_down}, k \in {S_in, S_out}, t \in {S_call, S_put}}
    \cup {<<S_lookback, l, t>> : l \in {S_fixed, S_floating}, t \in {S_call, S_put}}

\* The tags the page's select element offers besides asian-call and
\* asian-put, a tag with no sub-type and a tag of no family.
OtherTagWords ==
    {<<S_barrier, S_up, S_out>>, <<S_barrier, S_down, S_in>>,
     <<S_lookback, S_fixed>>, <<S_lookback, S_floating>>,
     <<S_barrier>>, <<S_vanilla, S_call>>}

\* The params object calculateOption builds: spot 100, volatility 0.2, rate
\* 0.05, maturity 1; no type, barrier or average type field.
RequestParams ==
    {[optionType |-> JoinDash(w),
      spot |-> 100 * Scale,
      strike |-> k * Scale,
      volatility |-> 200,
      riskFreeRate |-> 50,
      maturity |-> Scale,
      steps |-> n,
      simulations |-> m,
      useAntithetic |-> f,
      useStratified |-> f,
      jumpDiffusion |-> FALSE,
      type |-> Undefined,
      barrierType |-> Undefined,
      barrier |-> UndefinedNum,
      lookbackType |-> Undefined,
      averageType |-> Undefined] :
        w \in GrammarTagWords \cup OtherTagWords, k \in {80, 100},
        n \in 1..MaxSteps, m \in 1..MaxSims, f \in BOOLEAN}

\* The values Math.random() returns in the worker's runs: 0.1 and 0.85.
UDraws == {100, 850}

\* self.onmessage up to the first draw: createOption, whose throw is posted
\* by the catch block, then the start of simulatePaths.
Receive(params) ==
    /\ wpc = "idle"
    /\ request' = [params |-> params, optionType |-> params.optionType]
    /\ \E created \in {createOption(params)} :
          /\ option' = created
          /\ IF created.ok
             THEN /\ wpc' = "simulating"
                  /\ paths' = <<<<created.val.S0>>>>
                  /\ posted' = posted
             ELSE /\ wpc' = "done"
                  /\ paths' = <<>>
                  /\ posted' = Append(posted, ErrorMessage(created.err))
    /\ result' = None
    /\ UNCHANGED <<pvars, mvars, gvars, uvars>>

\* One iteration of the inner loop of simulatePaths, Math.random() returning
\* u; after the last step of a path the next path starts at S0.
SimStep(u) ==
    /\ wpc = "simulating"
    /\ LET opt == option.val
           sim == Len(paths)
           path == paths[sim]
       IN  /\ Len(path) < opt.steps + 1
           /\ \E price \in {NextPrice(opt, Last(path), FirstDraw(opt, u))} :
                 paths' = IF Len(path) + 1 = opt.steps + 1 /\ sim < opt.simulations
                          THEN Append([paths EXCEPT ![sim] = Append(path, price)],
                                      <<opt.S0>>)
                          ELSE [paths EXCEPT ![sim] = Append(path, price)]
    /\ UNCHANGED <<wpc, request, option, result, posted, pvars, mvars, gvars, uvars>>

\* self.onmessage after simulatePaths: calculatePrice, calculateGreeks,
\* calculateRiskMetrics, the correction and postMessage (or the catch block).
Finish ==
    /\ wpc = "simulating"
    /\ Len(paths) = option.val.simulations
    /\ Len(Last(paths)) = option.val.steps + 1
    /\ \E res \in {calculatePrice(option.val, paths)} :
          /\ result' = Ok(res)
          /\ \E final \in {FinalResult(request.optionType, option.val, res)} :
                posted' = Append(posted,
                    IF final.ok
                    THEN ResultMessage(final.val,
                                       calculateGreeks(option.val, paths),
                                       calculateRiskMetrics(option.val, paths))
                    ELSE ErrorMessage(final.err))
    /\ wpc' = "done"
    /\ UNCHANGED <<request, option, paths, pvars, mvars, gvars, uvars>>

GeneratorIdle ==
    /\ gOp = "none"
    /\ gOption = None
    /\ gUniforms = <<>>
    /\ gArgs = <<>>
    /\ gZ = <<>>
    /\ gPaths = <<>>

\* The page after load: the button enabled, no click yet.
PageIdle ==
    /\ disabled = FALSE
    /\ requests = <<>>

Init == WorkerIdle /\ PayoffIdle /\ MatrixIdle /\ GeneratorIdle /\ PageIdle

Next ==
    \/ \E params \in RequestParams : Receive(params)
    \/ \E u \in UDraws : SimStep(u)
    \/ Finish

Spec == Init /\ [][Next]_vars

(***************************************************************************)
(*                 Properties of the pricing worker (Spec)                 *)
(***************************************************************************)
\* The barrier type a tag's direction and knock words name.
TagBarrierType(w) == JoinDash(<<w[2], S_and, w[3]>>)

\* C1: for every variant tag of the request grammar, the option instance
\* createOption builds has the family, the barrier direction and knock type,
\* the lookback type and the call/put type the tag names.
C1_OptionIsTheTagsVariant ==
    \A w \in GrammarTagWords :
        (wpc # "idle" /\ request.optionType = JoinDash(w) /\ option.ok) =>
            /\ option.val.family = w[1]
            /\ option.val.type = Last(w)
            /\ (w[1] = S_barrier => option.val.barrierType = TagBarrierType(w))
            /\ (w[1] = S_lookback => option.val.lookbackType = w[2])

\* The result whose price, confidence interval and payoffs a completed
\* request of the option's family is to answer with.
ExpectedResult ==
    IF option.val.family = S_barrier
    THEN adjustForContinuousBarrier(option.val, result.val)
    ELSE IF option.val.family = S_lookback
    THEN adjustForContinuousMonitoring(option.val, result.val)
    ELSE result.val

Completed ==
    /\ wpc = "done"
    /\ option.ok
    /\ result.ok
    /\ posted # <<>>
    /\ Last(posted).kind = "result"

\* C2: the response to a barrier or lookback request that completes without
\* error carries the price, confidence interval and payoffs of the
\* continuous-monitoring-corrected result; the response to an Asian request
\* carries those of the raw calculatePrice result.
C2_ResponseIsCorrected ==
    Completed =>
        Bind(ExpectedResult, LAMBDA expected :
            /\ Last(posted).price = expected.price
            /\ Last(posted).confidence = expected.confidence
            /\ Last(posted).payoffs = expected.payoffs)

\* A completed barrier request whose corrected price is not the raw price.
C2_Witness ==
    /\ Completed
    /\ option.val.family = S_barrier
    /\ Last(posted).price # result.val.price
    /\ Last(posted).payoffs # result.val.payoffs

\* C15: for a call option with S0 = K = 100 (sigma 0.2, r 0.05, T 1)
\* calculateGreeks returns a Delta strictly between 0 and 1 and a positive
\* Vega, both numbers and not NaN.
C15_GreeksSignSanity ==
    (/\ Completed
     /\ option.val.type = S_call
     /\ option.val.S0 = 100 * Scale
     /\ option.val.K = 100 * Scale) =>
        /\ Gt(Last(posted).greeks.delta, 0)
        /\ Lt(Last(posted).greeks.delta, Scale)
        /\ Gt(Last(posted).greeks.vega, 0)

(***************************************************************************)
(*        Specification SpecPayoff: an option constructed and priced       *)
(*        on a given path set                                              *)
(***************************************************************************)
\* The families of the option classes.
Families == {S_asian, S_barrier, S_lookback}

\* The constructor arguments: spot 3, strike 3, volatility 0.2, rate 0.05,
\* maturity 1, two steps; the barrier absent, 0, below, at, just above (3.2)
\* or above spot;
\* the variant fields absent (undefined) or one of their values.
PayoffParams ==
    {[optionType |-> fam,
      spot |-> 3 * Scale,
      strike |-> 3 * Scale,
      volatility |-> 200,
      riskFreeRate |-> 50,
      maturity |-> Scale,
      steps |-> 2,
      simulations |-> 1,
      useAntithetic |-> FALSE,
      useStratified |-> FALSE,
      jumpDiffusion |-> FALSE,
      type |-> t,
      barrierType |-> bt,
      barrier |-> b,
      lookbackType |-> lt,
      averageType |-> at] :
        fam \in Families, t \in {S_call, S_put},
        bt \in {Undefined, S_up_and_out, S_up_and_in, S_down_and_out, S_down_and_in},
        b \in {UndefinedNum, 0, 2 * Scale, 3 * Scale, 3200, 4 * Scale},
        lt \in {Undefined, S_fixed, S_floating},
        at \in {Undefined, S_arithmetic, S_geometric}}

\* The arguments that differ in a field their family's constructor reads.
RelevantParams ==
    {p \in PayoffParams :
        /\ (p.optionType # S_asian => p.averageType = Undefined)
        /\ (p.optionType # S_barrier =>
               p.barrierType = Undefined /\ p.barrier = UndefinedNum)
        /\ (p.optionType # S_lookback => p.lookbackType = Undefined)}

\* new AsianOption / BarrierOption / LookbackOption / MonteCarloSimulation
\* (params)
Construct(params) ==
    /\ pOp = "none"
    /\ pOp' = "new"
    /\ pParams' = params
    /\ pOption' = IF params.optionType = S_asian THEN AsianOption(params)
                  ELSE IF params.optionType = S_barrier THEN BarrierOption(params)
                  ELSE IF params.optionType = S_lookback THEN LookbackOption(params)
                  ELSE Ok(MonteCarloSimulation(params))
    /\ UNCHANGED <<pPaths, pLocals, pResult, pAnalytical, wvars, mvars, gvars, uvars>>

\* The prices a given path is made of.
PriceGrid == {2 * Scale, 4 * Scale}

\* The path sets: 1..MaxPaths paths of one length in 1..MaxPathLen.
PathSets ==
    UNION {UNION {[1..m -> [1..n -> PriceGrid]] : m \in 1..MaxPaths} :
              n \in 1..MaxPathLen}

\* option.calculatePrice(paths)
Price(ps) ==
    /\ pOp = "new"
    /\ pOption.ok
    /\ pOp' = "calculatePrice"
    /\ pPaths' = ps
    /\ pLocals' = Ok(PriceLocals(pOption.val, ps))
    /\ pResult' = Ok(calculatePrice(pOption.val, ps))
    /\ UNCHANGED <<pParams, pOption, pAnalytical, wvars, mvars, gvars, uvars>>

\* asianOption.calculateControlVariate(paths)
ControlVariate(ps) ==
    /\ pOp = "new"
    /\ pOption.ok
    /\ pOption.val.family = S_asian
    /\ pOp' = "calculateControlVariate"
    /\ pPaths' = ps
    /\ pLocals' = Ok(ControlVariateLocals(pOption.val, ps))
    /\ pResult' = Ok(calculateControlVariate(pOption.val, ps))
    /\ UNCHANGED <<pParams, pOption, pAnalytical, wvars, mvars, gvars, uvars>>

\* barrierOption.calculateAnalyticalPrice()
Analytical ==
    /\ pOp = "new"
    /\ pOption.ok
    /\ pOption.val.family = S_barrier
    /\ pOp' = "calculateAnalyticalPrice"
    /\ pAnalytical' = Barrier_calculateAnalyticalPrice(pOption.val)
    /\ UNCHANGED <<pParams, pOption, pPaths, pLocals, pResult, wvars, mvars, gvars, uvars>>

\* option.calculateGreeks(paths)
Greeks(ps) ==
    /\ pOp = "new"
    /\ pOption.ok
    /\ pOp' = "calculateGreeks"
    /\ pPaths' = ps
    /\ pLocals' = Ok(GreeksSimulations(pOption.val))
    /\ pResult' = Ok(calculateGreeks(pOption.val, ps))
    /\ UNCHANGED <<pParams, pOption, pAnalytical, wvars, mvars, gvars, uvars>>

\* The result arguments of adjustForContinuousBarrier: only result.paths is
\* read.  The array of paths may be empty, and a path may end between a
\* barrier and its adjusted value (3.8 under an up barrier of 4, 2.1 above a
\* down barrier of 2).
ResultArgs ==
    {[paths |-> ps] :
        ps \in PathSets \cup {<<>>, <<<<3 * Scale, 3800>>>>, <<<<3 * Scale, 2100>>>>}}

\* barrierOption.adjustForContinuousBarrier(result)
AdjustBarrier(resultArg) ==
    /\ pOp = "new"
    /\ pOption.ok
    /\ pOption.val.family = S_barrier
    /\ pOp' = "adjustForContinuousBarrier"
    /\ pPaths' = resultArg.paths
    /\ \E call \in {AdjustBarrierCall(pOption.val, resultArg)} :
          /\ pLocals' = Ok([adjustedBarrier |-> call.adjustedBarrier,
                            tempBarrier |-> call.tempBarrier])
          /\ pResult' = call.outcome
          /\ pOption' = Ok(call.this)
    /\ UNCHANGED <<pParams, pAnalytical, wvars, mvars, gvars, uvars>>

\* lookbackOption.adjustForContinuousMonitoring(result), result being what
\* the option's calculatePrice returned for the paths ps.
AdjustMonitoring(ps) ==
    /\ pOp = "new"
    /\ pOption.ok
    /\ pOption.val.family = S_lookback
    /\ pOp' = "adjustForContinuousMonitoring"
    /\ pPaths' = ps
    /\ \E resultArg \in {Lookback_calculatePrice(pOption.val, ps)} :
          /\ pLocals' = Ok([result |-> resultArg])
          /\ pResult' = Ok(adjustForContinuousMonitoring(pOption.val, resultArg))
    /\ UNCHANGED <<pParams, pOption, pAnalytical, wvars, mvars, gvars, uvars>>

NextPayoff ==
    \/ \E ps \in PathSets : AdjustMonitoring(ps)
    \/ \E resultArg \in ResultArgs : AdjustBarrier(resultArg)
    \/ \E params \in RelevantParams : Construct(params)
    \/ \E ps \in PathSets : Price(ps)
    \/ \E ps \in PathSets : ControlVariate(ps)
    \/ Analytical
    \/ \E ps \in PathSets : Greeks(ps)

SpecPayoff == Init /\ [][NextPayoff]_vars

(***************************************************************************)
(*   Specification SpecPaths: simulatePaths under every combination of     *)
(*   the sampling flags                                                    *)
(***************************************************************************)
\* The constructor arguments: spot 100, strike 100, volatility 0.2, rate
\* 0.05, maturity 1, and every combination of the three flags.
PathParams ==
    {[optionType |-> S_vanilla,
      spot |-> 100 * Scale,
      strike |-> 100 * Scale,
      volatility |-> 200,
      riskFreeRate |-> 50,
      maturity |-> Scale,
      steps |-> n,
      simulations |-> m,
      useAntithetic |-> a,
      useStratified |-> s,
      jumpDiffusion |-> j,
      type |-> S_call,
      barrierType |-> Undefined,
      barrier |-> UndefinedNum,
      lookbackType |-> Undefined,
      averageType |-> Undefined] :
        n \in 1..MaxSteps, m \in 1..MaxSims,
        a \in BOOLEAN, s \in BOOLEAN, j \in BOOLEAN}

\* The values Math.random() returns in simulatePaths: 0 (the least value of
\* its range [0, 1)), 0.1 and 0.85.
PathDraws == {0, 100, 850}

\* new MonteCarloSimulation(params), then simulatePaths up to the first draw.
StartPaths(params) ==
    /\ wpc = "idle"
    /\ request' = [params |-> params, optionType |-> params.optionType]
    /\ option' = Ok(MonteCarloSimulation(params))
    /\ paths' = <<<<params.spot>>>>
    /\ wpc' = "simulating"
    /\ UNCHANGED <<result, posted, pvars, mvars, gvars, uvars>>

\* One iteration of the inner loop of simulatePaths, Math.random() returning
\* u in generateRandomNumbers and uJump, uSize in the jump block; after the
\* last step of a path the next path starts at S0.
PathStep(u, uJump, uSize) ==
    /\ wpc = "simulating"
    /\ LET opt == option.val
           sim == Len(paths)
           path == paths[sim]
       IN  /\ Len(path) < opt.steps + 1
           /\ \E price \in {NextPriceJump(opt, Last(path), FirstDraw(opt, u),
                                           JumpSize(opt, uJump, uSize))} :
                 paths' = IF Len(path) + 1 = opt.steps + 1 /\ sim < opt.simulations
                          THEN Append([paths EXCEPT ![sim] = Append(path, price)],
                                      <<opt.S0>>)
                          ELSE [paths EXCEPT ![sim] = Append(path, price)]
    /\ UNCHANGED <<wpc, request, option, result, posted, pvars, mvars, gvars, uvars>>

\* return paths
ReturnPaths ==
    /\ wpc = "simulating"
    /\ Len(paths) = option.val.simulations
    /\ Len(Last(paths)) = option.val.steps + 1
    /\ wpc' = "returned"
    /\ UNCHANGED <<request, option, paths, result, posted, pvars, mvars, gvars, uvars>>

NextPaths ==
    \/ \E params \in PathParams : StartPaths(params)
    \/ \E u \in PathDraws : \E uJump \in PathDraws : \E uSize \in PathDraws :
          PathStep(u, uJump, uSize)
    \/ ReturnPaths

SpecPaths == Init /\ [][NextPaths]_vars

\* C17: simulatePaths returns exactly simulations paths, each of steps + 1
\* prices, with index 0 equal to S0 and every price strictly positive, for
\* every combination of the antithetic, stratified and jump-diffusion flags.
C17_PathsShapeAndPositive ==
    wpc = "returned" =>
        /\ Len(paths) = option.val.simulations
        /\ \A i \in 1..Len(paths) :
              /\ Len(paths[i]) = option.val.steps + 1
              /\ paths[i][1] = option.val.S0
              /\ \A k \in 1..Len(paths[i]) : Gt(paths[i][k], 0)

(***************************************************************************)
(*   Specification SpecSample: an option of each class priced on a sample  *)
(*   of two or more paths                                                  *)
(***************************************************************************)
\* The constructor arguments with every variant field absent, for the three
\* families and for the base class.
SampleParams ==
    {p \in RelevantParams :
        /\ p.averageType = Undefined
        /\ p.barrierType = Undefined /\ p.barrier = UndefinedNum
        /\ p.lookbackType = Undefined}
    \cup {[p EXCEPT !.optionType = S_vanilla] :
             p \in {q \in RelevantParams :
                       q.optionType = S_asian /\ q.averageType = Undefined}}

\* The prices a path of a sample is made of: 2, 3.01, 3.012 and 4.
SampleGrid == {2 * Scale, 3010, 3012, 4 * Scale}

\* The samples: 2..MaxSample paths of a starting and a terminal price.
SamplePathSets == UNION {[1..m -> [1..2 -> SampleGrid]] : m \in 2..MaxSample}

NextSample ==
    \/ \E params \in SampleParams : Construct(params)
    \/ \E ps \in SamplePathSets : Price(ps)

SpecSample == Init /\ [][NextSample]_vars

(***************************************************************************)
(*   Specification SpecDraws: generateRandomNumbers called directly and    *)
(*   from the steps of simulatePaths                                       *)
(***************************************************************************)
\* The simulations ask for 1..MaxDraws paths.
MaxDraws == 3

\* The constructor arguments: spot 100, strike 100, volatility 0.2, rate
\* 0.05, maturity 1, two steps, no jump diffusion, and every combination of
\* the antithetic and stratified flags.
DrawParams ==
    {[optionType |-> S_vanilla,
      spot |-> 100 * Scale,
      strike |-> 100 * Scale,
      volatility |-> 200,
      riskFreeRate |-> 50,
      maturity |-> Scale,
      steps |-> 2,
      simulations |-> m,
      useAntithetic |-> a,
      useStratified |-> s,
      jumpDiffusion |-> FALSE,
      type |-> S_call,
      barrierType |-> Undefined,
      barrier |-> UndefinedNum,
      lookbackType |-> Undefined,
      averageType |-> Undefined] :
        m \in 1..MaxDraws, a \in BOOLEAN, s \in BOOLEAN}

\* What Math.random() returns in a direct call of generateRandomNumbers that
\* draws n times: 0, 0.1 or 0.85 each time.
UniformSamples(n) == [1..n -> PathDraws]

\* What Math.random() returns in the n draws of a step of simulatePaths: 0.1
\* or 0.85 first, then 0.1 or 0.85 every other time.
StepSamples(n) ==
    {[i \in 1..n |-> IF i = 1 THEN u ELSE v] : u \in UDraws, v \in UDraws}

\* new MonteCarloSimulation(params)
NewSimulation(params) ==
    /\ gOp = "none"
    /\ gOp' = "new"
    /\ gOption' = Ok(MonteCarloSimulation(params))
    /\ UNCHANGED <<gUniforms, gArgs, gZ, gPaths, wvars, pvars, mvars, uvars>>

\* simulation.generateRandomNumbers()
CallGenerateRandomNumbers(us) ==
    /\ gOp = "new"
    /\ Len(us) = effectiveSimulations(gOption.val)
    /\ gOp' = "generateRandomNumbers"
    /\ gUniforms' = us
    /\ gArgs' = NormalInverseArgs(gOption.val, us)
    /\ gZ' = generateRandomNumbers(gOption.val, us)
    /\ UNCHANGED <<gOption, gPaths, wvars, pvars, mvars, uvars>>

\* simulation.simulatePaths() up to the first step.
EnterSimulatePaths ==
    /\ gOp = "new"
    /\ gOp' = "simulatePaths"
    /\ gPaths' = <<<<gOption.val.S0>>>>
    /\ UNCHANGED <<gOption, gUniforms, gArgs, gZ, wvars, pvars, mvars, uvars>>

\* SimulateStep with the step made with the last draw of the sample.
SimulateStep_lastDraw(us, uJump, uSize) ==
    /\ gOp = "simulatePaths"
    /\ Len(us) = effectiveSimulations(gOption.val)
    /\ Len(Last(gPaths)) < gOption.val.steps + 1
    /\ gUniforms' = us
    /\ gArgs' = NormalInverseArgs(gOption.val, us)
    /\ \E z \in {generateRandomNumbers(gOption.val, us)} :
          /\ gZ' = z
          /\ \E price \in {NextPriceJump(gOption.val, Last(Last(gPaths)), z[Len(z)],
                                          JumpSize(gOption.val, uJump, uSize))} :
                gPaths' =
                    IF /\ Len(Last(gPaths)) + 1 = gOption.val.steps + 1
                       /\ Len(gPaths) < gOption.val.simulations
                    THEN Append([gPaths EXCEPT ![Len(gPaths)] = Append(@, price)],
                                <<gOption.val.S0>>)
                    ELSE [gPaths EXCEPT ![Len(gPaths)] = Append(@, price)]
    /\ UNCHANGED <<gOp, gOption, wvars, pvars, mvars, uvars>>

\* One iteration of the inner loop of simulatePaths: a fresh call of
\* generateRandomNumbers, the step made with z[0], the jump block with
\* Math.random() returning uJump and uSize (it draws nothing for the options
\* of DrawParams, which have no jump diffusion); after the last step of a
\* path the next path starts at S0.
SimulateStep(us, uJump, uSize) ==
    /\ gOp = "simulatePaths"
    /\ Len(us) = effectiveSimulations(gOption.val)
    /\ Len(Last(gPaths)) < gOption.val.steps + 1
    /\ gUniforms' = us
    /\ gArgs' = NormalInverseArgs(gOption.val, us)
    /\ \E z \in {generateRandomNumbers(gOption.val, us)} :
          /\ gZ' = z
          /\ \E price \in {NextPriceJump(gOption.val, Last(Last(gPaths)), z[1],
                                          JumpSize(gOption.val, uJump, uSize))} :
                gPaths' =
                    IF /\ Len(Last(gPaths)) + 1 = gOption.val.steps + 1
                       /\ Len(gPaths) < gOption.val.simulations
                    THEN Append([gPaths EXCEPT ![Len(gPaths)] = Append(@, price)],
                                <<gOption.val.S0>>)
                    ELSE [gPaths EXCEPT ![Len(gPaths)] = Append(@, price)]
    /\ UNCHANGED <<gOp, gOption, wvars, pvars, mvars, uvars>>

\* return paths
LeaveSimulatePaths ==
    /\ gOp = "simulatePaths"
    /\ Len(gPaths) = gOption.val.simulations
    /\ Len(Last(gPaths)) = gOption.val.steps + 1
    /\ gOp' = "returned"
    /\ UNCHANGED <<gOption, gUniforms, gArgs, gZ, gPaths, wvars, pvars, mvars, uvars>>

NextDraws ==
    \/ \E params \in DrawParams : NewSimulation(params)
    \/ \E n \in 1..MaxDraws : \E us \in UniformSamples(n) :
          CallGenerateRandomNumbers(us)
    \/ EnterSimulatePaths
    \/ \E n \in 1..MaxDraws : \E us \in StepSamples(n) :
          SimulateStep(us, 850, 850)
    \/ LeaveSimulatePaths

SpecDraws == Init /\ [][NextDraws]_vars

(***************************************************************************)
(*   Specification SpecRisk: calculateRiskMetrics on samples of up to      *)
(*   MaxRisk paths                                                         *)
(***************************************************************************)
MaxRisk == 20

\* The constructor arguments of the base class: spot 3, a call and a put.
RiskParams == {p \in SampleParams : p.optionType = S_vanilla}

\* The samples: 1..MaxRisk paths from the spot, all ending at 4 except at
\* most one, which ends at 2.
RiskPathSets ==
    {[i \in 1..m |-> IF i = j THEN <<3 * Scale, 2 * Scale>>
                                ELSE <<3 * Scale, 4 * Scale>>] :
        m \in 1..MaxRisk, j \in 0..MaxRisk}

\* simulation.calculateRiskMetrics(paths)
Risk(ps) ==
    /\ pOp = "new"
    /\ pOption.ok
    /\ pOp' = "calculateRiskMetrics"
    /\ pPaths' = ps
    /\ pLocals' = Ok([returns |-> [i \in 1..Len(ps) |->
                                     Ln(Div(Last(ps[i]), pOption.val.S0))]])
    /\ pResult' = Ok(calculateRiskMetrics(pOption.val, ps))
    /\ UNCHANGED <<pParams, pOption, pAnalytical, wvars, mvars, gvars, uvars>>

NextRisk ==
    \/ \E params \in RiskParams : Construct(params)
    \/ \E ps \in RiskPathSets : Risk(ps)

SpecRisk == Init /\ [][NextRisk]_vars

(***************************************************************************)
(*   Specification SpecControl: the control variate estimate of an Asian   *)
(*   option on a sample of two or more paths                               *)
(***************************************************************************)
MaxControl == 3

\* The constructor arguments of an arithmetic Asian call and put.
ControlParams ==
    {p \in RelevantParams : p.optionType = S_asian /\ p.averageType = S_arithmetic}

\* The paths of a sample: three prices, the first the spot, the second 2 or
\* 4, the last 2, 3.01 or 4.
ControlPaths ==
    {<<3 * Scale, b, c>> : b \in {2 * Scale, 4 * Scale},
                           c \in {2 * Scale, 3010, 4 * Scale}}

\* The samples: 2..MaxControl paths.
ControlPathSets == UNION {[1..m -> ControlPaths] : m \in 2..MaxControl}

NextControl ==
    \/ \E params \in ControlParams : Construct(params)
    \/ \E ps \in ControlPathSets : ControlVariate(ps)

SpecControl == Init /\ [][NextControl]_vars

(***************************************************************************)
(*      Specification SpecMatrix: the correlation utilities applied        *)
(*      to a given matrix                                                  *)
(***************************************************************************)
\* The off-diagonal entries: -0.9, 0.9 and 1.
OffGrid == {0 - 900, 900, Scale}

\* The positions below the diagonal of an n x n matrix.
LowerPairs(n) == {<<i, j>> \in (1..n) \X (1..n) : j < i}

\* The symmetric n x n matrices of unit diagonal over OffGrid.
SymmetricUnit(n) ==
    {[i \in 1..n |-> [j \in 1..n |->
         IF i = j THEN Scale ELSE IF j < i THEN f[<<i, j>>] ELSE f[<<j, i>>]]] :
       f \in [LowerPairs(n) -> OffGrid]}

\* The matrices of unit diagonal whose off-diagonal entries all equal v.
Uniform(n, v) == [i \in 1..n |-> [j \in 1..n |-> IF i = j THEN Scale ELSE v]]

\* A uniform matrix; one with a single entry replaced (an asymmetric matrix,
\* or a diagonal entry that is not 1); one with a symmetric pair of entries
\* replaced by 1.5; one with a row a column short.
Tweaked(n) ==
    {Uniform(n, v) : v \in {0, 900}}
    \cup {[Uniform(n, v) EXCEPT ![i][j] = x] :
             v \in {0, 900}, i \in 1..n, j \in 1..n, x \in {900, 0 - 1500}}
    \cup {[Uniform(n, v) EXCEPT ![p[1]][p[2]] = 1500, ![p[2]][p[1]] = 1500] :
             v \in {0, 900}, p \in LowerPairs(n)}
    \cup {[Uniform(n, v) EXCEPT ![i] = SubSeq(@, 1, n - 1)] :
             v \in {0, 900}, i \in 1..n}

\* The arguments of the correlation utilities: 0..MaxDim rows.
MatrixInputs == UNION {SymmetricUnit(n) \cup Tweaked(n) : n \in 0..MaxDim}

\* cholesky(matrix)
CallCholesky(matrix) ==
    /\ mOp = "none"
    /\ mOp' = "cholesky"
    /\ mInput' = matrix
    /\ mChol' = cholesky(matrix)
    /\ UNCHANGED <<mValid, mNormals, mCorrelated, wvars, pvars, gvars, uvars>>

\* isValidCorrelationMatrix(matrix)
CallIsValid(matrix) ==
    /\ mOp = "none"
    /\ mOp' = "isValidCorrelationMatrix"
    /\ mInput' = matrix
    /\ mValid' = isValidCorrelationMatrix(matrix)
    /\ UNCHANGED <<mChol, mNormals, mCorrelated, wvars, pvars, gvars, uvars>>

\* The independent draws handed to generateCorrelatedVariables: -1 and 0.5.
NormalGrid == {0 - Scale, 500}

\* The vectors of n draws: one value at the odd places, one at the even.
NormalVectors(n) ==
    {[i \in 1..n |-> IF i % 2 = 1 THEN v ELSE w] : v \in NormalGrid, w \in NormalGrid}

\* generateCorrelatedVariables(matrix, standardNormals), one draw per row.
CallGenerate(matrix, standardNormals) ==
    /\ mOp = "none"
    /\ mOp' = "generateCorrelatedVariables"
    /\ mInput' = matrix
    /\ mNormals' = standardNormals
    /\ mCorrelated' = generateCorrelatedVariables(matrix, standardNormals)
    /\ UNCHANGED <<mChol, mValid, wvars, pvars, gvars, uvars>>

NextMatrix ==
    \/ \E matrix \in MatrixInputs : CallCholesky(matrix)
    \/ \E matrix \in MatrixInputs : CallIsValid(matrix)
    \/ \E matrix \in MatrixInputs :
          \E standardNormals \in NormalVectors(Len(matrix)) :
              CallGenerate(matrix, standardNormals)

SpecMatrix == Init /\ [][NextMatrix]_vars

(***************************************************************************)
(*          Properties of the option families (SpecPayoff)                 *)
(***************************************************************************)
\* calculatePrice has been applied to an option of family fam.
Priced(fam) ==
    /\ pOp = "calculatePrice"
    /\ pOption.val.family = fam

IsUp(bt) == bt \in {S_up_and_out, S_up_and_in}
IsOut(bt) == bt \in {S_up_and_out, S_down_and_out}

\* Some price of the path, index 0 included, is at or beyond the barrier.
Breached(bt, barrier, path) ==
    \E i \in 1..Len(path) :
        IF IsUp(bt) THEN path[i] >= barrier ELSE path[i] <= barrier

\* x floored at 0.
Floor0(x) == IF x > 0 THEN x ELSE 0

\* The vanilla payoff of type t at strike K on the final price x.
VanillaRef(t, K, x) == IF t = S_call THEN Floor0(x - K) ELSE Floor0(K - x)

\* C3: in BarrierOption.calculatePrice a path counts as breached iff some
\* price of the full path is >= the barrier (up) or <= the barrier (down); a
\* knock-out option pays the vanilla payoff on a path never breached and 0
\* otherwise, a knock-in option the vanilla payoff on a breached path and 0
\* otherwise.
C3_BreachDecidesPayoff ==
    Priced(S_barrier) =>
        LET o == pOption.val
        IN  \A i \in 1..Len(pPaths) :
                LET hit == Breached(o.barrierType, o.barrier, pPaths[i])
                    vanilla == VanillaRef(o.type, o.K, Last(pPaths[i]))
                IN  /\ pLocals.val.isBarrierHit[i] = hit
                    /\ pLocals.val.payoffs[i] =
                           IF IsOut(o.barrierType) = ~hit THEN vanilla ELSE 0

\* A knock-in put whose path touches the up barrier at index 0 only, and
\* only by equality, and pays.
C3_Witness ==
    /\ Priced(S_barrier)
    /\ pOption.val.barrierType = S_up_and_in
    /\ Len(pPaths[1]) > 1
    /\ pPaths[1][1] = pOption.val.barrier
    /\ \A k \in 2..Len(pPaths[1]) : pPaths[1][k] < pOption.val.barrier
    /\ pLocals.val.payoffs[1] > 0

\* C4: constructing a BarrierOption with an up barrier at or below spot, or
\* a down barrier at or above spot, fails and yields no instance; every
\* other placement constructs.
C4_PlacementDecidesConstruction ==
    (/\ pOp # "none"
     /\ pParams.optionType = S_barrier
     /\ pParams.barrierType # Undefined
     /\ pParams.barrier # UndefinedNum) =>
        LET misplaced == IF IsUp(pParams.barrierType)
                         THEN pParams.barrier <= pParams.spot
                         ELSE pParams.barrier >= pParams.spot
        IN  pOption.ok <=> ~misplaced

\* C5: calculateAnalyticalPrice returns a value only for (call, up-and-out)
\* and (put, down-and-out); for every other combination it throws the
\* 'unsupported' error.
C5_AnalyticalOnlyForTwoCases ==
    pOp = "calculateAnalyticalPrice" =>
        LET o == pOption.val
            supported == \/ o.type = S_call /\ o.barrierType = S_up_and_out
                         \/ o.type = S_put /\ o.barrierType = S_down_and_out
        IN  /\ pAnalytical.ok <=> supported
            /\ ~pAnalytical.ok => pAnalytical.err = E_Analytical

\* The analytical price refused for an up-and-out put.
C5_Witness ==
    /\ pOp = "calculateAnalyticalPrice"
    /\ pOption.val.type = S_put
    /\ pOption.val.barrierType = S_up_and_out
    /\ ~pAnalytical.ok

\* The largest and the smallest price of a path.
PathMax(path) ==
    CHOOSE v \in {path[k] : k \in 1..Len(path)} : \A k \in 1..Len(path) : path[k] <= v
PathMin(path) ==
    CHOOSE v \in {path[k] : k \in 1..Len(path)} : \A k \in 1..Len(path) : path[k] >= v

\* C6: LookbackOption.calculatePrice computes for every path the
\* undiscounted payoff max(path)-K (fixed call), K-min(path) (fixed put),
\* S_T-min(path) (floating call) or max(path)-S_T (floating put), floored at
\* 0, the extrema ranging over all prices of the path.
C6_LookbackPayoffs ==
    Priced(S_lookback) =>
        LET o == pOption.val
        IN  \A i \in 1..Len(pPaths) :
                LET path == pPaths[i]
                    S_T == Last(path)
                IN  pLocals.val.payoffs[i] =
                        IF o.lookbackType = S_fixed
                        THEN (IF o.type = S_call THEN Floor0(PathMax(path) - o.K)
                              ELSE Floor0(o.K - PathMin(path)))
                        ELSE (IF o.type = S_call THEN Floor0(S_T - PathMin(path))
                              ELSE Floor0(PathMax(path) - S_T))

\* A fixed-strike call paid on a maximum that only the starting price
\* attains.
C6_Witness ==
    /\ Priced(S_lookback)
    /\ pOption.val.lookbackType = S_fixed
    /\ pOption.val.type = S_call
    /\ Len(pPaths[1]) > 1
    /\ \A k \in 2..Len(pPaths[1]) : pPaths[1][k] < pPaths[1][1]
    /\ pLocals.val.payoffs[1] > 0

\* The arithmetic mean of all prices of a path.
ArithmeticMeanRef(path) == DivInt(ReduceAddFrom(path, 1, 0), Len(path))

\* exp of the mean of the logarithms of all prices of a path.
GeometricMeanRef(path) == Exp(DivInt(ReduceAddLogFrom(path, 1, 0), Len(path)))

\* C7: the Asian average of a path is the arithmetic mean of all its prices
\* when averageType is arithmetic and exp of the mean of their logarithms
\* when geometric, in calculatePrice and in calculateControlVariate.
C7_AsianAverage ==
    /\ Priced(S_asian) =>
           \A i \in 1..Len(pPaths) :
               pLocals.val.average[i] =
                   IF pOption.val.averageType = S_arithmetic
                   THEN ArithmeticMeanRef(pPaths[i])
                   ELSE GeometricMeanRef(pPaths[i])
    /\ pOp = "calculateControlVariate" =>
           \A i \in 1..Len(pPaths) :
               /\ pLocals.val.arithmeticAvg[i] = ArithmeticMeanRef(pPaths[i])
               /\ pLocals.val.geometricAvg[i] = GeometricMeanRef(pPaths[i])

\* The simulation sim has every simulation parameter of the option o except
\* the fields of skip.
SameParameters(sim, o, skip) ==
    /\ "S0" \notin skip => sim.S0 = o.S0
    /\ sim.K = o.K
    /\ "sigma" \notin skip => sim.sigma = o.sigma
    /\ "r" \notin skip => sim.r = o.r
    /\ "T" \notin skip => sim.T = o.T
    /\ sim.steps = o.steps
    /\ sim.simulations = o.simulations
    /\ sim.useAntithetic = o.useAntithetic
    /\ sim.useStratified = o.useStratified
    /\ sim.jumpDiffusion = o.jumpDiffusion
    /\ sim.type = o.type

\* C13: in calculateGreeks each bumped simulation runs with exactly one
\* parameter changed by the relative step h = 0.01 (S0 (1 + h), S0 (1 - h),
\* T (1 - h), sigma (1 + h), r (1 + h)) and with every other simulation
\* parameter equal to the base option's.
C13_OneParameterBumped ==
    pOp = "calculateGreeks" =>
        LET o == pOption.val
            s == pLocals.val
        IN  /\ s.spotUp.S0 = Mul(o.S0, 1010) /\ SameParameters(s.spotUp, o, {"S0"})
            /\ s.spotDown.S0 = Mul(o.S0, 990) /\ SameParameters(s.spotDown, o, {"S0"})
            /\ s.thetaSim.T = Mul(o.T, 990) /\ SameParameters(s.thetaSim, o, {"T"})
            /\ s.vegaSim.sigma = Mul(o.sigma, 1010)
            /\ SameParameters(s.vegaSim, o, {"sigma"})
            /\ s.rhoSim.r = Mul(o.r, 1010) /\ SameParameters(s.rhoSim, o, {"r"})

\* C14: when calculateGreeks is called on an Asian, Barrier or Lookback
\* option, every bumped price comes from the same option family's payoff
\* evaluation with the same variant fields (average type, barrier level and
\* type, lookback type) as the base price.
C14_BumpedRunsSamePipeline ==
    pOp = "calculateGreeks" =>
        \A k \in {"spotUp", "spotDown", "thetaSim", "vegaSim", "rhoSim"} :
            /\ pLocals.val[k].family = pOption.val.family
            /\ pLocals.val[k].averageType = pOption.val.averageType
            /\ pLocals.val[k].barrierType = pOption.val.barrierType
            /\ pLocals.val[k].barrier = pOption.val.barrier
            /\ pLocals.val[k].lookbackType = pOption.val.lookbackType

(***************************************************************************)
(*          Properties of a priced sample (SpecSample)                     *)
(***************************************************************************)
\* The standard error of a sample: the square root of its variance (divisor
\* n - 1) over n.
StdErrRef(sample) ==
    Sqrt(DivInt(DivInt(ReduceAddSq(sample, DivInt(ReduceAdd0(sample), Len(sample))),
                       Len(sample) - 1),
                Len(sample)))

\* One discounted payoff per path.
PayoffPerPath ==
    /\ Len(pResult.val.payoffs) = Len(pPaths)
    /\ \A i \in 1..Len(pPaths) :
           pResult.val.payoffs[i] = Mul(pLocals.val.payoffs[i], Discount(pOption.val))

\* The interval is mean -+ 1.96 standard errors of the discounted payoffs.
IntervalAroundMean ==
    LET ci == pResult.val.confidence
        sample == pResult.val.payoffs
    IN  /\ ci.mean = DivInt(ReduceAdd0(sample), Len(sample))
        /\ ci.lower = Sub(ci.mean, Mul(1960, StdErrRef(sample)))
        /\ ci.upper = Add(ci.mean, Mul(1960, StdErrRef(sample)))

\* C16: for every path set of at least 2 paths the result of calculatePrice
\* (base, Asian, Barrier, Lookback) has one discounted payoff per path, a
\* confidence interval with lower = mean - 1.96 stderr and upper = mean +
\* 1.96 stderr, and a price equal to the interval's mean, so that
\* lower <= price <= upper.
C16_PriceWithinInterval ==
    (pOp = "calculatePrice" /\ Len(pPaths) >= 2) =>
        /\ PayoffPerPath
        /\ IntervalAroundMean
        /\ pResult.val.price = pResult.val.confidence.mean
        /\ Le(pResult.val.confidence.lower, pResult.val.price)
        /\ Le(pResult.val.price, pResult.val.confidence.upper)

(***************************************************************************)
(*          Properties of the correlation utilities (SpecMatrix)           *)
(***************************************************************************)
\* C8: cholesky throws at the first row whose diagonal radicand is zero or
\* negative, and so never returns a factor with a non-positive or NaN
\* diagonal entry.
C8_FactorDiagonalPositive ==
    (mOp = "cholesky" /\ mChol.ok) =>
        \A i \in 1..Len(mInput) : Gt(mChol.val[i][i], 0)

\* The matrix without row 1 and column c.
Minor(M, c) ==
    [i \in 1..(Len(M) - 1) |->
        [j \in 1..(Len(M) - 1) |-> M[i + 1][IF j < c THEN j ELSE j + 1]]]

RECURSIVE Det(_)
\* The determinant of a square matrix of integers, expanded along row 1.
Det(M) ==
    IF Len(M) = 0 THEN 1
    ELSE LET term(c) == (IF c % 2 = 1 THEN 1 ELSE 0 - 1) * M[1][c] * Det(Minor(M, c))
             sum[c \in 0..Len(M)] == IF c = 0 THEN 0 ELSE sum[c - 1] + term(c)
         IN  sum[Len(M)]

\* The leading k x k block of a matrix, its entries in tenths.
LeadingTenths(matrix, k) == [i \in 1..k |-> [j \in 1..k |-> matrix[i][j] \div 100]]

IsSquare(matrix) == \A i \in 1..Len(matrix) : Len(matrix[i]) = Len(matrix)

\* A symmetric matrix is positive definite iff every leading principal
\* minor is positive (Sylvester's criterion).
PositiveDefinite(matrix) ==
    \A k \in 1..Len(matrix) : Det(LeadingTenths(matrix, k)) > 0

\* The definition of a valid correlation matrix.
ValidCorrelationRef(matrix) ==
    /\ IsSquare(matrix)
    /\ \A i \in 1..Len(matrix) : \A j \in 1..Len(matrix) : matrix[i][j] = matrix[j][i]
    /\ \A i \in 1..Len(matrix) : matrix[i][i] = Scale
    /\ \A i \in 1..Len(matrix) : \A j \in 1..Len(matrix) :
           matrix[i][j] >= 0 - Scale /\ matrix[i][j] <= Scale
    /\ PositiveDefinite(matrix)

\* C9: isValidCorrelationMatrix returns true exactly when the matrix is
\* square, symmetric, of unit diagonal, with all entries in [-1, 1], and
\* positive definite.
C9_ValidIffCorrelationMatrix ==
    mOp = "isValidCorrelationMatrix" =>
        /\ mValid.ok
        /\ mValid.val <=> ValidCorrelationRef(mInput)

\* C10: isValidCorrelationMatrix returns a boolean and never throws, for
\* square and ragged arrays of any size; the failure raised by cholesky is
\* caught and turned into false.
C10_ValidNeverThrows ==
    mOp = "isValidCorrelationMatrix" =>
        /\ mValid.ok
        /\ mValid.val \in BOOLEAN
        /\ ~cholesky(mInput).ok => mValid.val = FALSE

\* A matrix that passes every test before the factorization, on which
\* cholesky throws and the answer is false.
C10_Witness ==
    /\ mOp = "isValidCorrelationMatrix"
    /\ Len(mInput) > 1
    /\ IsSquare(mInput)
    /\ isSymmetric(mInput)
    /\ \A i \in 1..Len(mInput) : \A j \in 1..Len(mInput) :
           mInput[i][j] >= 0 - Scale /\ mInput[i][j] <= Scale
    /\ \A i \in 1..Len(mInput) : mInput[i][i] = Scale
    /\ cholesky(mInput) = Throw(E_NotPD)
    /\ mValid = Ok(FALSE)

\* Some entry of the matrix differs from its mirror image.
Asymmetric(matrix) ==
    \E i \in 1..Len(matrix) : \E j \in 1..Len(matrix[i]) :
        j <= Len(matrix) /\ i <= Len(matrix[j]) /\ matrix[i][j] # matrix[j][i]

\* C11: cholesky, and generateCorrelatedVariables which calls it, report a
\* failure when given a non-square or an asymmetric matrix, instead of
\* returning a factor or a vector of correlated draws.
C11_RejectsNonSquareAndAsymmetric ==
    (~IsSquare(mInput) \/ Asymmetric(mInput)) =>
        /\ mOp = "cholesky" => ~mChol.ok
        /\ mOp = "generateCorrelatedVariables" => ~mCorrelated.ok

\* L times its transpose.
Reconstructed(L) == matrixMultiply(L, transpose(L).val).val

\* C12: for every valid correlation matrix A, cholesky(A) returns a factor L
\* that is lower-triangular (0 above the diagonal) and whose product with its
\* transpose reproduces A entry by entry, within the resolution of the
\* arithmetic (one fixed-point unit).
C12_CholeskyRoundTrip ==
    (mOp = "cholesky" /\ ValidCorrelationRef(mInput)) =>
        /\ mChol.ok
        /\ \A i \in 1..Len(mInput) : \A j \in 1..Len(mInput) :
              /\ j > i => mChol.val[i][j] = 0
              /\ Abs(Reconstructed(mChol.val)[i][j] - mInput[i][j]) <= 1

\* A valid 3 x 3 matrix factored with a pivot other than 1 under a non-zero
\* entry.
C12_Witness ==
    /\ mOp = "cholesky"
    /\ ValidCorrelationRef(mInput)
    /\ Len(mInput) = 3
    /\ mChol.ok
    /\ mChol.val[2][2] # Scale
    /\ mChol.val[3][2] # 0

Adjusted == pOp = "adjustForContinuousBarrier"

\* The factor exp(-/+ 0.5826 * sigma * sqrt(T / n)) of an option: minus for an
\* up barrier, plus for a down barrier.
InwardFactor(opt) ==
    IF StartsWith(opt.barrierType, S_up)
    THEN Exp(Neg(Mul(Mul(583, opt.sigma), Sqrt(DivInt(opt.T, opt.steps)))))
    ELSE Exp(Mul(Mul(583, opt.sigma), Sqrt(DivInt(opt.T, opt.steps))))

\* C18 (as stated): the substituted barrier lies farther from the spot than
\* the original barrier: higher than the original for an up barrier, lower
\* than the original for a down barrier.
C18_ShiftedOutward ==
    Adjusted =>
        /\ StartsWith(pOption.val.barrierType, S_up) =>
              Gt(pLocals.val.adjustedBarrier, pLocals.val.tempBarrier)
        /\ StartsWith(pOption.val.barrierType, S_down) =>
              Lt(pLocals.val.adjustedBarrier, pLocals.val.tempBarrier)

\* C18 (amended): adjustForContinuousBarrier re-evaluates with the barrier
\* multiplied by exp(-0.5826 sigma sqrt(T/n)) for an up barrier and by
\* exp(+0.5826 sigma sqrt(T/n)) for a down barrier, the sign chosen inward,
\* toward the spot: the substituted barrier of a positive barrier is lower
\* than the original for an up barrier and higher than the original for a
\* down barrier, and a returned result is the evaluation of the given paths
\* under the substituted barrier.
C18_ShiftedInward ==
    (Adjusted /\ Gt(pLocals.val.tempBarrier, 0)) =>
        /\ pLocals.val.tempBarrier = BarrierOption(pParams).val.barrier
        /\ pLocals.val.adjustedBarrier =
              Mul(pLocals.val.tempBarrier, InwardFactor(BarrierOption(pParams).val))
        /\ StartsWith(pOption.val.barrierType, S_up) =>
              Lt(pLocals.val.adjustedBarrier, pLocals.val.tempBarrier)
        /\ StartsWith(pOption.val.barrierType, S_down) =>
              Gt(pLocals.val.adjustedBarrier, pLocals.val.tempBarrier)
        /\ pResult.ok =>
              pResult.val =
                  Barrier_calculatePrice(
                      [BarrierOption(pParams).val
                          EXCEPT !.barrier = pLocals.val.adjustedBarrier],
                      pPaths)

\* An up-and-out call with barrier 4 on a path ending at 3.8: below the
\* barrier, at or above the substituted one, so that the re-evaluation is
\* knocked out where the evaluation at the original barrier pays.
C18_Witness ==
    /\ Adjusted
    /\ pResult.ok
    /\ pOption.val.barrierType = S_up_and_out
    /\ pOption.val.type = S_call
    /\ pLocals.val.tempBarrier = 4 * Scale
    /\ pPaths = <<<<3 * Scale, 3800>>>>
    /\ Lt(pLocals.val.adjustedBarrier, 3800)
    /\ pResult.val.price = 0
    /\ Gt(Barrier_calculatePrice(pOption.val, pPaths).price, 0)

\* C19: adjustForContinuousBarrier re-runs the barrier payoff evaluation on
\* the identical path set of the input result with the shifted barrier
\* substituted, and once the call has completed, whether it returned or
\* threw, the option's barrier field equals the value it had before the call.
C19_BarrierRestored ==
    Adjusted =>
        /\ pResult.ok =>
              /\ pResult.val.paths = pPaths
              /\ pResult.val =
                    Barrier_calculatePrice(
                        [BarrierOption(pParams).val
                            EXCEPT !.barrier = pLocals.val.adjustedBarrier],
                        pPaths)
        /\ pOption.val.barrier = BarrierOption(pParams).val.barrier


Monitored == pOp = "adjustForContinuousMonitoring"

\* 0.5826 * sigma * sqrt(T / n) of an option.
MonitoringAdjustment(opt) ==
    Mul(Mul(583, opt.sigma), Sqrt(DivInt(opt.T, opt.steps)))

\* The payoffs multiplied one by one by exp(sgn * adjustment).
ScaledBy(payoffs, opt, sgn) ==
    [i \in 1..Len(payoffs) |->
        Mul(payoffs[i], Exp(IF sgn = 1 THEN MonitoringAdjustment(opt)
                            ELSE Neg(MonitoringAdjustment(opt))))]

\* The same option with the other option type.
OtherType(opt) == [opt EXCEPT !.type = IF @ = S_call THEN S_put ELSE S_call]

\* C20: adjustForContinuousMonitoring multiplies every already-discounted
\* payoff of the input result by exp(+0.5826 sigma sqrt(T/n)) or by
\* exp(-0.5826 sigma sqrt(T/n)), the sign determined by the option type (a
\* call and a put get opposite signs), discounts no further, re-evaluates no
\* path, and returns the mean of the scaled payoffs as the price on the
\* unchanged path set.
C20_ScaledBySignOfType ==
    Monitored =>
        /\ \E sgn \in {0 - 1, 1} :
              /\ pResult.val.payoffs =
                    ScaledBy(pLocals.val.result.payoffs, pOption.val, sgn)
              /\ adjustForContinuousMonitoring(OtherType(pOption.val),
                                               pLocals.val.result).payoffs =
                    ScaledBy(pLocals.val.result.payoffs, pOption.val, 0 - sgn)
        /\ pResult.val.price =
              DivInt(ReduceAdd(pResult.val.payoffs), Len(pResult.val.payoffs))
        /\ pResult.val.paths = pPaths
        /\ pResult.val.paths = pLocals.val.result.paths


Controlled == pOp = "calculateControlVariate"

\* The sample covariance of the arithmetic and the geometric payoffs is
\* positive.
PositivelyCorrelated ==
    Gt(calculateCovariance(pLocals.val.arithmeticPayoffs,
                           pLocals.val.geometricPayoffs), 0)

\* C21: calculateControlVariate forms each adjusted payoff as
\* arith - beta * (geom - analyticalGeomPrice) with
\* beta = sampleCov(arith, geom) / sampleVar(geom), and on every path set
\* whose arithmetic and geometric payoffs are positively correlated the
\* sample variance of the adjusted payoffs is no greater than the sample
\* variance of the arithmetic payoffs.
C21_ControlVariateReducesVariance ==
    Controlled =>
        /\ pLocals.val.arithmeticPayoffs = ControlArithmeticPayoffs(pOption.val, pPaths)
        /\ pLocals.val.geometricPayoffs = ControlGeometricPayoffs(pOption.val, pPaths)
        /\ pLocals.val.beta =
              Div(calculateCovariance(pLocals.val.arithmeticPayoffs,
                                      pLocals.val.geometricPayoffs),
                  calculateVariance(pLocals.val.geometricPayoffs))
        /\ \A i \in 1..Len(pPaths) :
              pLocals.val.adjustedPayoffs[i] =
                  Sub(pLocals.val.arithmeticPayoffs[i],
                      Mul(pLocals.val.beta,
                          Sub(pLocals.val.geometricPayoffs[i],
                              calculateGeometricPrice(pOption.val))))
        /\ PositivelyCorrelated =>
              Le(calculateVariance(pLocals.val.adjustedPayoffs),
                 calculateVariance(pLocals.val.arithmeticPayoffs))

\* Three paths with positively correlated payoffs whose adjusted payoffs
\* vary, and vary less than the arithmetic payoffs.
C21_Witness ==
    /\ Controlled
    /\ Len(pPaths) = 3
    /\ PositivelyCorrelated
    /\ Gt(calculateVariance(pLocals.val.adjustedPayoffs), 0)
    /\ Lt(calculateVariance(pLocals.val.adjustedPayoffs),
          calculateVariance(pLocals.val.arithmeticPayoffs))


Generated == gOp = "generateRandomNumbers"

\* u lies in the bin [(i - 1) / n, i / n), the bounds being the quotients as
\* the arithmetic gives them.
InBin(u, i, n) ==
    /\ Le(DivInt((i - 1) * Scale, n), u)
    /\ Lt(u, DivInt(i * Scale, n))

C23_ArgumentsInsideUnitInterval ==
    \A i \in 1..Len(gArgs) : Gt(gArgs[i], 0) /\ Lt(gArgs[i], Scale)

\* A step of simulatePaths has been made.
Stepped == gOp \in {"simulatePaths", "returned"} /\ gZ # <<>>

\* The path the last step extended, and the step's place in it.
SteppedPath ==
    IF Len(Last(gPaths)) = 1 THEN gPaths[Len(gPaths) - 1] ELSE Last(gPaths)

\* C27: in simulatePaths every step of every path calls generateRandomNumbers
\* afresh and consumes only the draw at index 0 of the fresh sample; the
\* consumed draw is therefore never an antithetic mirror image, and with
\* stratified sampling its uniform lies in the first bin [0, 1 / m_eff).
C27_StepConsumesFirstDraw ==
    Stepped =>
        /\ gZ = generateRandomNumbers(gOption.val, gUniforms)
        /\ Len(gZ) = gOption.val.simulations
        /\ Last(SteppedPath) =
              NextPriceJump(gOption.val, SteppedPath[Len(SteppedPath) - 1], gZ[1], 0)
        /\ gZ[1] = normalInverse(gArgs[1])
        /\ gOption.val.useStratified =>
              InBin(gArgs[1], 1, effectiveSimulations(gOption.val))
        /\ ~gOption.val.useStratified => gArgs[1] = gUniforms[1]

\* The first step of the second of three paths, both flags on: the uniform
\* 0.85 falls into the first of two bins, the step goes down with the
\* negative first draw while the sample's third draw is its positive mirror
\* image.
C27_Witness ==
    /\ Stepped
    /\ gOption.val.useAntithetic /\ gOption.val.useStratified
    /\ gOption.val.simulations = 3
    /\ Len(gPaths) = 2 /\ Len(Last(gPaths)) = 2
    /\ gUniforms[1] = 850 /\ gArgs[1] = 425
    /\ Lt(gZ[1], 0) /\ gZ[3] = Neg(gZ[1])
    /\ Lt(Last(Last(gPaths)), gOption.val.S0)

\* The number of places of the sequence s that hold x.
Occurrences(s, x) == Cardinality({i \in 1..Len(s) : s[i] = x})

\* C24: in calculateGreeks the spot-up and the spot-down simulation are each
\* priced once, and those two prices serve both the Delta and the Gamma
\* formula.
C24_BumpedSpotPricedOnce ==
    pOp = "calculateGreeks" =>
        /\ Occurrences(pLocals.val.pricings, "spotUp") = 1
        /\ Occurrences(pLocals.val.pricings, "spotDown") = 1

\* Barrier levels above the spot of 3: 3.2, 3.6, 4 and 4.5.
BarrierLevels == {3200, 3600, 4 * Scale, 4500}

\* The price of the up-and-out call constructed from pParams with barrier B,
\* on the paths pPaths.
PriceAtBarrier(B) ==
    Barrier_calculatePrice(
        BarrierOption([pParams EXCEPT !.barrierType = S_up_and_out,
                                      !.barrier = B]).val, pPaths).price

\* calculatePrice has been applied to an up-and-out call.
PricedUpAndOutCall ==
    /\ Priced(S_barrier)
    /\ pOption.val.barrierType = S_up_and_out
    /\ pOption.val.type = S_call

\* C25: on a fixed path set, of two up-and-out calls that differ only in
\* their barriers B1 <= B2 above S0 the one with B1 has the price that is no
\* greater; and when the barrier exceeds every price of every path the
\* up-and-out call price equals the vanilla call price on the same paths.
C25_BarrierMonotone ==
    PricedUpAndOutCall =>
        /\ pResult.val.price = PriceAtBarrier(pOption.val.barrier)
        /\ \A B \in BarrierLevels :
              /\ B <= pOption.val.barrier => Le(PriceAtBarrier(B), pResult.val.price)
              /\ pOption.val.barrier <= B => Le(pResult.val.price, PriceAtBarrier(B))
              /\ (\A i \in 1..Len(pPaths) : \A k \in 1..Len(pPaths[i]) :
                     pPaths[i][k] < B) =>
                    PriceAtBarrier(B) =
                        Vanilla_calculatePrice(MonteCarloSimulation(pParams),
                                               pPaths).price

\* A sample with a path that pays under the barrier of 3.6 and a path that
\* reaches 4: the price is positive, and less than under a barrier of 4.5,
\* which no price reaches.
C25_Witness ==
    /\ PricedUpAndOutCall
    /\ pOption.val.barrier = 3600
    /\ \E i \in 1..Len(pPaths) : Last(pPaths[i]) = 4 * Scale
    /\ Gt(pResult.val.price, 0)
    /\ Lt(pResult.val.price, PriceAtBarrier(4500))

\* The nearest-rank percentile of the returns at pct per cent: the smallest
\* return r such that at least pct per cent of the returns are <= r.
NearestRank(returns, pct) ==
    CHOOSE r \in {returns[i] : i \in 1..Len(returns)} :
        /\ 100 * Cardinality({i \in 1..Len(returns) : returns[i] <= r})
               >= pct * Len(returns)
        /\ \A q \in {returns[i] : i \in 1..Len(returns)} :
              100 * Cardinality({i \in 1..Len(returns) : returns[i] <= q})
                 >= pct * Len(returns) => r <= q

\* C26: calculateRiskMetrics returns var95 equal to the negation of the
\* nearest-rank 5th percentile of the log-returns ln(S_T / S0) of the path
\* set, the smallest return r such that at least 5% of the m returns are
\* <= r, for every m >= 1, and leaves the path set unchanged.
C26_Var95NearestRank ==
    pOp = "calculateRiskMetrics" =>
        /\ pLocals.val.returns =
              [i \in 1..Len(pPaths) |-> Ln(Div(Last(pPaths[i]), pOption.val.S0))]
        /\ pResult.val.var95 = Neg(NearestRank(pLocals.val.returns, 5))

\* The constructor's placement invariant for the barrier b of the option o.
WellPlaced(o, b) ==
    /\ StartsWith(o.barrierType, S_up) => Gt(b, o.S0)
    /\ StartsWith(o.barrierType, S_down) => Lt(b, o.S0)

\* C28: whenever BarrierOption.calculatePrice evaluates paths, the
\* re-evaluation made inside adjustForContinuousBarrier included, the barrier
\* in effect satisfies the constructor's placement invariant: an up barrier
\* is strictly above S0 and a down barrier strictly below S0.
C28_BarrierInEffectWellPlaced ==
    /\ Priced(S_barrier) => WellPlaced(pOption.val, pOption.val.barrier)
    /\ Adjusted => WellPlaced(pOption.val, pLocals.val.adjustedBarrier)

\* The handler self.onmessage has returned.
Responded == wpc = "done"

\* C29: for every request the pricing worker receives it posts exactly one
\* response, and none before the handler reaches postMessage: the corrected
\* pricing result with greeks and riskMetrics if no step throws, otherwise a
\* single error message with the error's message, name and stack; an error
\* thrown while creating the option is the error of that message.
C29_ExactlyOneResponse ==
    /\ ~Responded => posted = <<>>
    /\ Responded =>
          /\ Len(posted) = 1
          /\ posted[1].kind \in {"result", "error"}
          /\ posted[1].kind = "result" <=> (option.ok /\ result.ok)
          /\ posted[1].kind = "result" =>
                /\ Bind(ExpectedResult, LAMBDA expected :
                       /\ posted[1].price = expected.price
                       /\ posted[1].confidence = expected.confidence)
                /\ posted[1].greeks = calculateGreeks(option.val, paths)
                /\ posted[1].riskMetrics = calculateRiskMetrics(option.val, paths)
          /\ ~option.ok =>
                /\ posted[1].kind = "error"
                /\ posted[1].error = option.err
                /\ posted[1].name = "Error" <=>
                       posted[1].error \in {E_InvalidType, E_UpBarrier, E_DownBarrier}
                /\ posted[1].stack = <<posted[1].name, posted[1].error>>

\* A barrier request whose barrier is on the wrong side of the spot,
\* answered by the constructor's error alone.
C29_Witness ==
    /\ Responded
    /\ StartsWith(request.optionType, S_barrier)
    /\ posted = <<ErrorMessage(E_DownBarrier)>>

(***************************************************************************)
(*        Specification SpecPage: the request lifecycle of the page        *)
(***************************************************************************)
\* The clicks of a behaviour.
MaxClicks == 2

\* The closure of a calculateOption call whose parameters passed validation,
\* after the executor of its promise ran: the promise pending, the 30-second
\* timer armed, the worker started with the request posted to it.  inbox and
\* errors are the worker's message and error events waiting for the main
\* thread; jobs is the promise's queue of reactions; log lists, in order, the
\* callbacks of this closure that ran.
ValidRequest ==
    [promise |-> "pending",
     timeout |-> "armed",
     responded |-> FALSE,
     failed |-> FALSE,
     terminated |-> FALSE,
     inbox |-> <<>>,
     errors |-> 0,
     jobs |-> <<>>,
     log |-> <<>>]

\* A calculateOption call whose validation threw: no promise, timer or
\* worker; the catch block of the function alerts and enables the button.
InvalidRequest ==
    [promise |-> "none",
     timeout |-> "unset",
     responded |-> FALSE,
     failed |-> FALSE,
     terminated |-> TRUE,
     inbox |-> <<>>,
     errors |-> 0,
     jobs |-> <<>>,
     log |-> <<"alert", "enable">>]

\* The mutant of ClearTimeout that leaves the timer armed.
ClearTimeout_noop(r) == r

\* clearTimeout(timeout): an armed timer is cancelled; a fired one has
\* nothing left to cancel.
ClearTimeout(r) ==
    [r EXCEPT !.timeout = IF @ = "armed" THEN "cleared" ELSE @]

\* worker.terminate(): the worker runs no further.  dropped says whether a
\* message event already waiting for the main thread is discarded with it.
Terminate(r, dropped) ==
    [r EXCEPT !.terminated = TRUE,
              !.inbox = IF dropped THEN <<>> ELSE @]

\* resolve(value) / reject(error) of the promise: a pending promise takes the
\* outcome and queues its reactions; a settled promise ignores the call.
Settle(r, outcome) ==
    IF r.promise = "pending"
    THEN [r EXCEPT !.promise = outcome, !.jobs = Append(@, outcome)]
    ELSE r

\* What one queued reaction of the chain .then(...).catch(...).finally(...)
\* runs: updateResults (and the alert of catch if it throws), or the alert
\* of catch; then the finally callback, which enables the button.
Reaction(outcome, throws) ==
    IF outcome = "fulfilled"
    THEN (IF throws THEN <<"updateResults", "alert", "enable">>
          ELSE <<"updateResults", "enable">>)
    ELSE <<"alert", "enable">>

RECURSIVE RunJobs(_, _)
\* The microtask checkpoint after a callback: every queued reaction runs.
RunJobs(r, throws) ==
    IF r.jobs = <<>> THEN r
    ELSE RunJobs([r EXCEPT !.jobs = Tail(@),
                           !.log = @ \o Reaction(Head(r.jobs), throws)],
                 throws)

\* A task of the main thread that ran a callback of request i and left the
\* closure as r: its reactions run, and each one's finally enables the
\* button.
AfterCallback(i, r, throws) ==
    /\ requests' = [requests EXCEPT ![i] = RunJobs(r, throws)]
    /\ disabled' = IF r.jobs # <<>> THEN FALSE ELSE disabled
    /\ UNCHANGED <<wvars, pvars, mvars, gvars>>

\* calculateOption, the click listener of the button; a disabled button
\* dispatches no click.  The button is disabled first; a validation failure
\* goes to the catch block, which enables it again.
CalculateOption(valid) ==
    /\ ~disabled
    /\ Len(requests) < MaxClicks
    /\ requests' = Append(requests, IF valid THEN ValidRequest ELSE InvalidRequest)
    /\ disabled' = valid
    /\ UNCHANGED <<wvars, pvars, mvars, gvars>>

\* The worker of request i posts its one response, the result or the error
\* message.
WorkerResponds(i, kind) ==
    /\ i \in 1..Len(requests)
    /\ ~requests[i].terminated
    /\ ~requests[i].responded
    /\ requests' = [requests EXCEPT ![i].responded = TRUE,
                                      ![i].inbox = Append(@, kind)]
    /\ UNCHANGED <<disabled, wvars, pvars, mvars, gvars>>

\* The worker of request i raises an error event (its script fails to load
\* or throws outside the handler's try block).
WorkerFails(i) ==
    /\ i \in 1..Len(requests)
    /\ ~requests[i].terminated
    /\ ~requests[i].failed
    /\ requests' = [requests EXCEPT ![i].failed = TRUE,
                                      ![i].errors = @ + 1]
    /\ UNCHANGED <<disabled, wvars, pvars, mvars, gvars>>

\* The 30-second timer of request i fires: worker.terminate(), reject.
Timeout(i, dropped) ==
    /\ i \in 1..Len(requests)
    /\ requests[i].timeout = "armed"
    /\ \E r \in {Settle(Terminate([requests[i] EXCEPT
                                       !.timeout = "fired",
                                       !.log = Append(@, "timeout")],
                                   dropped),
                         "rejected")} :
          AfterCallback(i, r, FALSE)

\* worker.onerror of request i: clearTimeout, reject.
WorkerOnError(i) ==
    /\ i \in 1..Len(requests)
    /\ requests[i].errors > 0
    /\ \E r \in {Settle(ClearTimeout([requests[i] EXCEPT
                                          !.errors = @ - 1,
                                          !.log = Append(@, "onerror")]),
                         "rejected")} :
          AfterCallback(i, r, FALSE)

\* worker.onmessage of request i: clearTimeout, reject on an error message
\* and resolve otherwise, worker.terminate().  throws says whether
\* updateResults throws on the result.
WorkerOnMessage(i, throws) ==
    /\ i \in 1..Len(requests)
    /\ requests[i].inbox # <<>>
    /\ \E r \in {Terminate(
                     Settle(ClearTimeout([requests[i] EXCEPT
                                             !.inbox = Tail(@),
                                             !.log = Append(@, "onmessage")]),
                            IF Head(requests[i].inbox) = "error"
                            THEN "rejected" ELSE "fulfilled"),
                     TRUE)} :
          AfterCallback(i, r, throws)

NextPage ==
    \/ \E valid \in BOOLEAN : CalculateOption(valid)
    \/ \E i \in 1..MaxClicks : \E kind \in {"result", "error"} : WorkerResponds(i, kind)
    \/ \E i \in 1..MaxClicks : WorkerFails(i)
    \/ \E i \in 1..MaxClicks : \E dropped \in BOOLEAN : Timeout(i, dropped)
    \/ \E i \in 1..MaxClicks : WorkerOnError(i)
    \/ \E i \in 1..MaxClicks : \E throws \in BOOLEAN : WorkerOnMessage(i, throws)

SpecPage == Init /\ [][NextPage]_vars

\* The main thread's event loop runs every task it holds: an armed timer
\* fires, a waiting message or error event is dispatched.  Nothing obliges
\* the user to click or the worker to answer.
PageFairness ==
    \A i \in 1..MaxClicks :
        /\ WF_vars(\E dropped \in BOOLEAN : Timeout(i, dropped))
        /\ WF_vars(WorkerOnError(i))
        /\ WF_vars(\E throws \in BOOLEAN : WorkerOnMessage(i, throws))

SpecPageFair == SpecPage /\ PageFairness

(***************************************************************************)
(*                 Properties of the page (SpecPageFair)                   *)
(***************************************************************************)
\* In the sequence log, an entry a comes before a later entry b.
Before(log, a, b) ==
    \E j \in 1..Len(log) : \E k \in (j + 1)..Len(log) : log[j] = a /\ log[k] = b

\* The request r has settled exactly once if it settled, and not otherwise;
\* no timeout fired after a message was received; no result was applied
\* after the timeout.
SettledOnce(r) ==
    /\ Occurrences(r.log, "enable") = (IF r.promise = "pending" THEN 0 ELSE 1)
    /\ Occurrences(r.log, "alert") + Occurrences(r.log, "updateResults") \in
           (IF r.promise = "pending" THEN {0}
            ELSE IF r.promise = "fulfilled" THEN {1, 2} ELSE {1})
    /\ r.promise = "fulfilled" <=> Occurrences(r.log, "updateResults") = 1
    /\ Occurrences(r.log, "updateResults") <= 1
    /\ ~Before(r.log, "onmessage", "timeout")
    /\ ~Before(r.log, "timeout", "updateResults")

\* The button is disabled exactly while the request of the last click is
\* pending.
DisabledWhilePending ==
    disabled <=> (requests # <<>> /\ Last(requests).promise = "pending")

\* C30: after every click, under every interleaving of the worker's result
\* message, its error message, the onerror event, the 30-second timeout
\* and a validation failure, the request settles exactly once (no timeout
\* fires after a message was received, no worker message is applied after
\* the timeout terminated the worker), and the button, disabled at the
\* click, is eventually enabled again.
C30_SettlesOnceAndReenables ==
    /\ [](DisabledWhilePending /\ \A i \in 1..Len(requests) : SettledOnce(requests[i]))
    /\ (disabled ~> ~disabled)

\* The worker's message was still dispatched after the timeout terminated
\* the worker and rejected the request: it is not applied, and the next
\* click's request is pending.
C30_Witness ==
    /\ Len(requests) = 2
    /\ requests[1].log = <<"timeout", "alert", "enable", "onmessage">>
    /\ requests[2].promise = "pending"
    /\ disabled

=============================================================================
